---- MODULE Spec2Model ----
(***************************************************************************)
(* Model of the weather application's recommendation engine                *)
(* (src/recommendations.py) with the thresholds of src/config.py, and of   *)
(* the forecast aggregation of src/weather_service.py (_parse_forecast).   *)
(*                                                                         *)
(* Numbers.  Temperatures (deg C), wind speeds (km/h) and precipitation    *)
(* (mm) are Python floats.  The model holds them as integers counting      *)
(* tenths of the unit (20.5 deg C is 205), which is also the precision the *)
(* code prints them with ({x:.1f}).  The thresholds keep the values of     *)
(* config.py (whole units) and are scaled by Fixed where the code compares *)
(* them with a measurement.  Humidity is an integer percentage.            *)
(*                                                                         *)
(* Strings.  Fixed texts are TLA+ strings; the emoji that prefix the alert *)
(* titles in the source are left out.  The 'main' condition category is    *)
(* a sequence of one-character strings, so that lower() and the substring  *)
(* tests are computed, not assumed.                                        *)
(***************************************************************************)
EXTENDS Integers, Sequences, FiniteSets, TLC

VARIABLES
    ag_thresholds,      \* RecommendationEngine.ag_thresholds
    travel_thresholds,  \* RecommendationEngine.travel_thresholds
    call,               \* which evaluator the request is for
    weather_data,       \* the snapshot handed to the evaluator (a dict)
    forecast,           \* the forecast handed to the evaluator (None or a list)
    month,              \* datetime.now().month
    pc,                 \* "start" before the call, "done" after it
    result,             \* what the call returned or raised
    data,               \* data['list'] of the provider's forecast reply
    day_count,          \* the 'days' of a forecast request
    threads,            \* the evaluations running on the shared engine, one per thread
    frames,             \* the local variables of those evaluations
    started,            \* how many evaluations the engine has been asked for
    request             \* the request an endpoint is serving: its locals and its reply

\* the threads that call the one engine of the application
threadVars == <<threads, frames, started>>

vars ==
    <<ag_thresholds, travel_thresholds, call, weather_data, forecast, month, pc, result,
      data, day_count, threadVars, request>>

----------------------------------------------------------------------------
(* Python values *)

\* a measurement or threshold of n whole units, in tenths
Fixed(n) == 10 * n

\* f"{x:.1f}" of the float whose value is x tenths
Format1f(x) ==
    LET a == IF x < 0 THEN 0 - x ELSE x
    IN  (IF x < 0 THEN "-" ELSE "") \o ToString(a \div 10) \o "." \o ToString(a % 10)

\* dict.get(key, default)
Get(d, key, default) == IF key \in DOMAIN d THEN d[key] ELSE default

\* the dict with no key
EmptyDict == [k \in {} |-> 0]

\* the union of two dicts with disjoint keys
Merge(d, e) == [k \in (DOMAIN d) \cup (DOMAIN e) |-> IF k \in DOMAIN d THEN d[k] ELSE e[k]]

\* forecast: Optional[List[Dict]]; None is the absent argument
None == [given |-> FALSE, days |-> <<>>]
List(days) == [given |-> TRUE, days |-> days]

\* "if forecast:" is false for None and for the empty list
Truthy(fc) == fc.given /\ Len(fc.days) > 0

\* seq[:n]
Take(seq, n) == SubSeq(seq, 1, IF Len(seq) < n THEN Len(seq) ELSE n)

RECURSIVE SumField(_, _)
\* sum(f[field] for f in days)
SumField(days, field) ==
    IF days = <<>> THEN 0 ELSE days[1][field] + SumField(Tail(days), field)

RECURSIVE MaxField(_, _)
\* max(f[field] for f in days), days not empty
MaxField(days, field) ==
    IF Len(days) = 1 THEN days[1][field]
    ELSE LET m == MaxField(Tail(days), field)
         IN  IF days[1][field] >= m THEN days[1][field] ELSE m

\* what a call ends with
Returned(bundle) == [status |-> "returned", bundle |-> bundle]
Raised(error) == [status |-> "raised", error |-> error]
NoResult == [status |-> "none"]

Alert(type, title, message, severity) ==
    [type |-> type, title |-> title, message |-> message, severity |-> severity]

\* what one rule appends to the three lists of the agriculture evaluator
AgOut(alerts, recommendations, tasks) ==
    [alerts |-> alerts, recommendations |-> recommendations, tasks |-> tasks]

----------------------------------------------------------------------------
(* src/config.py *)

AGRICULTURE_THRESHOLDS ==
    [wind_speed_spray |-> 20, rain_threshold |-> 10, frost_temp |-> 2,
     heat_stress |-> 35, high_humidity |-> 80]

TRAVEL_THRESHOLDS ==
    [cold_weather |-> 10, hot_weather |-> 30, rain_warning |-> 5, wind_warning |-> 40]

----------------------------------------------------------------------------
(* RecommendationEngine: the agriculture evaluator *)

NoAgOut == AgOut(<<>>, <<>>, <<>>)

HighWind(wind_speed) ==
    AgOut(<<Alert("warning", "High Wind Alert",
                  "Wind speed is " \o Format1f(wind_speed)
                      \o " km/h. Avoid pesticide/fertilizer spraying.",
                  "high")>>,
          <<>>,
          <<"Postpone spraying operations until wind subsides">>)

GoodSpraying == AgOut(<<>>, <<>>, <<"Good conditions for spraying operations">>)

\* the spraying limit written with >= instead of >
AgWindRule_AtLimit(th, wind_speed) ==
    IF wind_speed >= Fixed(th.wind_speed_spray)
    THEN HighWind(wind_speed)
    ELSE GoodSpraying

\* # Wind-related recommendations
AgWindRule(th, wind_speed) ==
    IF wind_speed > Fixed(th.wind_speed_spray)
    THEN HighWind(wind_speed)
    ELSE GoodSpraying

FrostWarning(temp) ==
    AgOut(<<Alert("danger", "Frost Warning",
                  "Temperature is " \o Format1f(temp)
                      \o " C. Protect sensitive crops from frost damage.",
                  "critical")>>,
          <<>>,
          <<"Cover sensitive crops or use frost protection methods">>)

HeatStress(temp) ==
    AgOut(<<Alert("warning", "Heat Stress Alert",
                  "High temperature " \o Format1f(temp)
                      \o " C may stress crops. Ensure adequate irrigation.",
                  "high")>>,
          <<>>,
          <<"Increase irrigation frequency">>)

\* the frost test written with < instead of <=
AgTemperatureRule_StrictFrost(th, temp) ==
    IF temp < Fixed(th.frost_temp)
    THEN FrostWarning(temp)
    ELSE IF temp >= Fixed(th.heat_stress)
    THEN HeatStress(temp)
    ELSE NoAgOut

\* # Temperature-related recommendations
AgTemperatureRule(th, temp) ==
    IF temp <= Fixed(th.frost_temp)
    THEN FrostWarning(temp)
    ELSE IF temp >= Fixed(th.heat_stress)
    THEN HeatStress(temp)
    ELSE NoAgOut

HeavyRainfallText(rain) ==
    "Heavy rainfall detected (" \o Format1f(rain) \o "mm). Delay irrigation."

LightRainfallText(rain) ==
    "Light rainfall (" \o Format1f(rain) \o "mm) expected. Monitor soil moisture."

RainExpectedText(upcoming_rain) ==
    "Rain expected in next 3 days (" \o Format1f(upcoming_rain)
        \o "mm). Plan irrigation accordingly."

\* sum(f['total_rain'] for f in forecast[:3])
UpcomingRain(fc) == SumField(Take(fc.days, 3), "total_rain")

\* the light-rain branch also asking for regular irrigation
AgRainRule_LightIrrigates(th, rain, fc) ==
    IF rain > Fixed(th.rain_threshold)
    THEN AgOut(<<>>, <<HeavyRainfallText(rain)>>,
               <<"Skip irrigation today - sufficient rainfall">>)
    ELSE IF rain > 0
    THEN AgOut(<<>>, <<LightRainfallText(rain)>>, <<"Regular irrigation recommended">>)
    ELSE IF Truthy(fc)
    THEN IF UpcomingRain(fc) > Fixed(5)
         THEN AgOut(<<>>, <<RainExpectedText(UpcomingRain(fc))>>, <<>>)
         ELSE AgOut(<<>>, <<>>, <<"Regular irrigation recommended">>)
    ELSE NoAgOut

\* # Rainfall recommendations
AgRainRule(th, rain, fc) ==
    IF rain > Fixed(th.rain_threshold)
    THEN AgOut(<<>>, <<HeavyRainfallText(rain)>>,
               <<"Skip irrigation today - sufficient rainfall">>)
    ELSE IF rain > 0
    THEN AgOut(<<>>, <<LightRainfallText(rain)>>, <<>>)
    ELSE IF Truthy(fc)
    THEN IF UpcomingRain(fc) > Fixed(5)
         THEN AgOut(<<>>, <<RainExpectedText(UpcomingRain(fc))>>, <<>>)
         ELSE AgOut(<<>>, <<>>, <<"Regular irrigation recommended">>)
    ELSE NoAgOut

HighHumidity(humidity) ==
    AgOut(<<Alert("info", "High Humidity Alert",
                  "Humidity at " \o ToString(humidity)
                      \o "%. Increased risk of fungal diseases.",
                  "medium")>>,
          <<"Monitor crops for signs of fungal infection">>,
          <<"Apply preventive fungicide if needed">>)

\* the humidity limit written with > instead of >=
AgHumidityRule_AboveLimit(th, humidity) ==
    IF humidity > th.high_humidity
    THEN HighHumidity(humidity)
    ELSE NoAgOut

\* # Humidity recommendations
AgHumidityRule(th, humidity) ==
    IF humidity >= th.high_humidity
    THEN HighHumidity(humidity)
    ELSE NoAgOut

\* the seasons shifted by one month
_get_season_Shifted(now_month) ==
    IF now_month \in {1, 2, 3} THEN "winter"
    ELSE IF now_month \in {4, 5, 6} THEN "spring"
    ELSE IF now_month \in {7, 8, 9} THEN "summer"
    ELSE "autumn"

\* _get_season, with datetime.now().month as its argument
_get_season(now_month) ==
    IF now_month \in {12, 1, 2} THEN "winter"
    ELSE IF now_month \in {3, 4, 5} THEN "spring"
    ELSE IF now_month \in {6, 7, 8} THEN "summer"
    ELSE "autumn"

crop_calendar ==
    [spring |-> <<"Good time for planting summer crops like corn, cotton, and vegetables",
                  "Prepare soil with organic matter",
                  "Monitor for late frost warnings">>,
     summer |-> <<"Focus on irrigation management",
                  "Monitor for heat stress in crops",
                  "Good time for harvesting wheat and early crops">>,
     autumn |-> <<"Plant winter crops like wheat, barley",
                  "Harvest summer crops",
                  "Prepare fields for winter">>,
     winter |-> <<"Protect crops from frost",
                  "Plan for spring planting",
                  "Maintain irrigation systems">>]

\* the frost line of the winter advice given only when it is cold
_get_crop_advice_ByWeather(season, wd) ==
    IF season = "winter" /\ wd["temperature"] > Fixed(10)
    THEN Tail(Get(crop_calendar, season, <<>>))
    ELSE Get(crop_calendar, season, <<>>)

\* crop_calendar.get(season, [])
_get_crop_advice(season, wd) == Get(crop_calendar, season, <<>>)

FullActivities ==
    <<"Pesticide/fertilizer application", "Harvesting", "Field preparation",
      "Planting", "Equipment maintenance">>
ReducedActivities ==
    <<"Harvesting (if crops are ready)", "Equipment maintenance", "Storage management">>
IndoorActivities ==
    <<"Indoor activities only", "Planning and paperwork",
      "Equipment cleaning and maintenance">>

\* the wind limit of the full list taken as 30 km/h
_get_suitable_farm_activities_LooseWind(wd) ==
    LET temp == wd["temperature"]
        wind_speed == wd["wind_speed"]
        rain == Get(wd, "rain_1h", 0)
    IN  IF rain < Fixed(1) /\ wind_speed < Fixed(30) /\ Fixed(10) <= temp /\ temp <= Fixed(30)
        THEN FullActivities
        ELSE IF rain < Fixed(1) /\ wind_speed < Fixed(20)
        THEN ReducedActivities
        ELSE IF rain >= Fixed(1)
        THEN IndoorActivities
        ELSE <<>>

\* the rain read as rain_1h + rain_3h, as the evaluator itself reads it
_get_suitable_farm_activities_TotalRain(wd) ==
    LET temp == wd["temperature"]
        wind_speed == wd["wind_speed"]
        rain == Get(wd, "rain_1h", 0) + Get(wd, "rain_3h", 0)
    IN  IF rain < Fixed(1) /\ wind_speed < Fixed(20) /\ Fixed(10) <= temp /\ temp <= Fixed(30)
        THEN FullActivities
        ELSE IF rain < Fixed(1) /\ wind_speed < Fixed(20)
        THEN ReducedActivities
        ELSE IF rain >= Fixed(1)
        THEN IndoorActivities
        ELSE <<>>

\* weather_data has 'temperature' and 'wind_speed' when this is called
_get_suitable_farm_activities(wd) ==
    LET temp == wd["temperature"]
        wind_speed == wd["wind_speed"]
        rain == Get(wd, "rain_1h", 0)
    IN  IF rain < Fixed(1) /\ wind_speed < Fixed(20) /\ Fixed(10) <= temp /\ temp <= Fixed(30)
        THEN FullActivities
        ELSE IF rain < Fixed(1) /\ wind_speed < Fixed(20)
        THEN ReducedActivities
        ELSE IF rain >= Fixed(1)
        THEN IndoorActivities
        ELSE <<>>

\* the humidity block moved before the rainfall block
AgBundle_HumidityBeforeRain(wind, temperature, rainfall, humidity, crop_advice, activities) ==
    [alerts |-> wind.alerts \o temperature.alerts \o humidity.alerts \o rainfall.alerts,
     recommendations |-> wind.recommendations \o temperature.recommendations
                         \o humidity.recommendations \o rainfall.recommendations
                         \o crop_advice,
     tasks |-> wind.tasks \o temperature.tasks \o humidity.tasks \o rainfall.tasks,
     suitable_activities |-> activities,
     crop_advice |-> crop_advice]

\* the lists as the four rules, run in this order, leave them, with the crop
\* advice extended onto the recommendations
AgBundle(wind, temperature, rainfall, humidity, crop_advice, activities) ==
    [alerts |-> wind.alerts \o temperature.alerts \o rainfall.alerts \o humidity.alerts,
     recommendations |-> wind.recommendations \o temperature.recommendations
                         \o rainfall.recommendations \o humidity.recommendations
                         \o crop_advice,
     tasks |-> wind.tasks \o temperature.tasks \o rainfall.tasks \o humidity.tasks,
     suitable_activities |-> activities,
     crop_advice |-> crop_advice]

\* weather_data['temperature'], ['wind_speed'] and ['humidity'] raise KeyError
\* when the key is missing, before any rule runs
get_agriculture_recommendations(th, wd, fc, now_month) ==
    IF ~({"temperature", "wind_speed", "humidity"} \subseteq DOMAIN wd)
    THEN Raised("KeyError")
    ELSE
    LET temp == wd["temperature"]
        wind_speed == wd["wind_speed"]
        humidity == wd["humidity"]
        rain == Get(wd, "rain_1h", 0) + Get(wd, "rain_3h", 0)
        current_season == _get_season(now_month)
    IN  Returned(AgBundle(AgWindRule(th, wind_speed),
                          AgTemperatureRule(th, temp),
                          AgRainRule(th, rain, fc),
                          AgHumidityRule(th, humidity),
                          _get_crop_advice(current_season, wd),
                          _get_suitable_farm_activities(wd)))

----------------------------------------------------------------------------
(* Python strings that the code inspects: sequences of characters *)

UpperCase ==
    ("A" :> "a") @@ ("B" :> "b") @@ ("C" :> "c") @@ ("D" :> "d") @@ ("E" :> "e") @@
    ("F" :> "f") @@ ("G" :> "g") @@ ("H" :> "h") @@ ("I" :> "i") @@ ("J" :> "j") @@
    ("K" :> "k") @@ ("L" :> "l") @@ ("M" :> "m") @@ ("N" :> "n") @@ ("O" :> "o") @@
    ("P" :> "p") @@ ("Q" :> "q") @@ ("R" :> "r") @@ ("S" :> "s") @@ ("T" :> "t") @@
    ("U" :> "u") @@ ("V" :> "v") @@ ("W" :> "w") @@ ("X" :> "x") @@ ("Y" :> "y") @@
    ("Z" :> "z")

\* str.lower()
Lower(s) == [i \in 1..Len(s) |-> IF s[i] \in DOMAIN UpperCase THEN UpperCase[s[i]] ELSE s[i]]

\* sub in s
In(sub, s) ==
    \E i \in 1..(Len(s) - Len(sub) + 1) : SubSeq(s, i, i + Len(sub) - 1) = sub

\* the literals the travel evaluator looks for
Str_rain == <<"r", "a", "i", "n">>
Str_clear == <<"c", "l", "e", "a", "r">>
Str_sun == <<"s", "u", "n">>
Str_storm == <<"s", "t", "o", "r", "m">>
Str_thunder == <<"t", "h", "u", "n", "d", "e", "r">>
Str_fog == <<"f", "o", "g">>
Str_mist == <<"m", "i", "s", "t">>

\* two digits, zero padded (%H, %M)
Pad2(n) == (IF n < 10 THEN "0" ELSE "") \o ToString(n)

\* datetime.strftime("%H:%M")
StrfHM(t) == Pad2(t.hour) \o ":" \o Pad2(t.minute)

----------------------------------------------------------------------------
(* RecommendationEngine: the travel evaluator *)

\* what one rule appends to the three lists of the travel evaluator
TravelOut(alerts, recommendations, packing_list) ==
    [alerts |-> alerts, recommendations |-> recommendations, packing_list |-> packing_list]

ColdPacking == <<"Warm jacket", "Gloves", "Scarf", "Thermal wear">>
HotPacking == <<"Sunscreen", "Hat", "Sunglasses", "Light clothing", "Water bottle">>
DefaultPacking == <<"Light jacket", "Comfortable clothing">>
RainPacking == <<"Umbrella", "Raincoat", "Waterproof bag">>

\* the cold limit written with < instead of <=
TravelTemperatureRule_BelowLimit(th, temp) ==
    IF temp < Fixed(th.cold_weather)
    THEN TravelOut(<<>>,
                   <<"Cold weather (" \o Format1f(temp) \o " C). Pack warm clothing.">>,
                   ColdPacking)
    ELSE IF temp >= Fixed(th.hot_weather)
    THEN TravelOut(<<>>,
                   <<"Hot weather (" \o Format1f(temp)
                         \o " C). Stay hydrated and use sun protection.">>,
                   HotPacking)
    ELSE TravelOut(<<>>, <<>>, DefaultPacking)

\* # Temperature-based packing
TravelTemperatureRule(th, temp) ==
    IF temp <= Fixed(th.cold_weather)
    THEN TravelOut(<<>>,
                   <<"Cold weather (" \o Format1f(temp) \o " C). Pack warm clothing.">>,
                   ColdPacking)
    ELSE IF temp >= Fixed(th.hot_weather)
    THEN TravelOut(<<>>,
                   <<"Hot weather (" \o Format1f(temp)
                         \o " C). Stay hydrated and use sun protection.">>,
                   HotPacking)
    ELSE TravelOut(<<>>, <<>>, DefaultPacking)

\* the rain limit written with >= instead of >
TravelRainRule_AtLimit(th, rain, description) ==
    IF rain >= Fixed(th.rain_warning) \/ In(Str_rain, description)
    THEN TravelOut(<<Alert("warning", "Rain Expected",
                           "Pack rain gear and plan indoor activities.", "medium")>>,
                   <<"Consider indoor attractions or activities">>,
                   RainPacking)
    ELSE TravelOut(<<>>, <<>>, <<>>)

\* # Rain recommendations
TravelRainRule(th, rain, description) ==
    IF rain > Fixed(th.rain_warning) \/ In(Str_rain, description)
    THEN TravelOut(<<Alert("warning", "Rain Expected",
                           "Pack rain gear and plan indoor activities.", "medium")>>,
                   <<"Consider indoor attractions or activities">>,
                   RainPacking)
    ELSE TravelOut(<<>>, <<>>, <<>>)

StrongWinds(wind_speed) ==
    TravelOut(<<Alert("warning", "Strong Winds",
                      "Wind speed " \o Format1f(wind_speed)
                          \o " km/h. Be cautious outdoors.",
                      "high")>>,
              <<"Avoid outdoor activities in exposed areas">>,
              <<>>)

\* the wind limit written with >= instead of >
TravelWindRule_AtLimit(th, wind_speed) ==
    IF wind_speed >= Fixed(th.wind_warning)
    THEN StrongWinds(wind_speed)
    ELSE TravelOut(<<>>, <<>>, <<>>)

\* # Wind warnings
TravelWindRule(th, wind_speed) ==
    IF wind_speed > Fixed(th.wind_warning)
    THEN StrongWinds(wind_speed)
    ELSE TravelOut(<<>>, <<>>, <<>>)

\* # Weather condition recommendations
TravelConditionRule(description) ==
    IF In(Str_clear, description) \/ In(Str_sun, description)
    THEN TravelOut(<<>>,
                   <<"Perfect weather for sightseeing and outdoor activities!">>,
                   <<>>)
    ELSE IF In(Str_storm, description) \/ In(Str_thunder, description)
    THEN TravelOut(<<Alert("danger", "Storm Warning",
                           "Severe weather expected. Stay indoors if possible.",
                           "critical")>>,
                   <<"Postpone outdoor plans. Seek shelter.">>,
                   <<>>)
    ELSE IF In(Str_fog, description) \/ In(Str_mist, description)
    THEN TravelOut(<<Alert("info", "Poor Visibility",
                           "Fog/mist conditions. Drive carefully.", "medium")>>,
                   <<"Exercise caution while driving. Allow extra travel time.">>,
                   <<>>)
    ELSE TravelOut(<<>>, <<>>, <<>>)

UnknownOutlook == [summary |-> "No forecast data available", outlook |-> "unknown"]
PoorOutlook ==
    [summary |-> "Challenging weather ahead. Consider rescheduling outdoor activities.",
     outlook |-> "poor"]
ExcellentOutlook ==
    [summary |-> "Excellent weather forecast for the next few days!", outlook |-> "excellent"]
FairOutlook == [summary |-> "Fair weather expected. Pack accordingly.", outlook |-> "fair"]

\* the excellent test made before the poor test
_analyze_forecast_for_travel_ExcellentFirst(fc) ==
    IF ~Truthy(fc)
    THEN UnknownOutlook
    ELSE
    LET total_rain == SumField(fc.days, "total_rain")
        sum_temp == SumField(fc.days, "temp_avg")
        n == Len(fc.days)
        max_wind == MaxField(fc.days, "wind_speed_max")
    IN  IF total_rain < Fixed(5) /\ Fixed(15) * n <= sum_temp /\ sum_temp <= Fixed(28) * n
        THEN ExcellentOutlook
        ELSE IF total_rain > Fixed(20) \/ max_wind > Fixed(50)
        THEN PoorOutlook
        ELSE FairOutlook

\* avg_temp = sum(temp_avg) / len(forecast) is compared with 15 and 28; the
\* model compares the sum with the bound times the length, which is the same
\* comparison without the division
_analyze_forecast_for_travel(fc) ==
    IF ~Truthy(fc)
    THEN UnknownOutlook
    ELSE
    LET total_rain == SumField(fc.days, "total_rain")
        sum_temp == SumField(fc.days, "temp_avg")
        n == Len(fc.days)
        max_wind == MaxField(fc.days, "wind_speed_max")
    IN  IF total_rain > Fixed(20) \/ max_wind > Fixed(50)
        THEN PoorOutlook
        ELSE IF total_rain < Fixed(5) /\ Fixed(15) * n <= sum_temp /\ sum_temp <= Fixed(28) * n
        THEN ExcellentOutlook
        ELSE FairOutlook

\* the heat suggestion given from 25 degrees on
_get_best_travel_times_WarmLimit(wd, fc) ==
    LET temp == wd["temperature"]
    IN  (IF "sunrise" \in DOMAIN wd
         THEN <<"Sunrise at " \o StrfHM(wd["sunrise"]) \o " - Great for photography">>
         ELSE <<>>)
        \o
        (IF "sunset" \in DOMAIN wd
         THEN <<"Sunset at " \o StrfHM(wd["sunset"]) \o " - Beautiful evening views">>
         ELSE <<>>)
        \o
        (IF temp > Fixed(25)
         THEN <<"Visit outdoor attractions early morning or late evening to avoid heat">>
         ELSE IF temp < Fixed(10)
         THEN <<"Midday (11 AM - 3 PM) will be warmest for outdoor activities">>
         ELSE <<>>)

\* the temperature taken from the forecast's first day when there is one
_get_best_travel_times_ByForecast(wd, fc) ==
    LET temp == IF Truthy(fc) THEN fc.days[1].temp_avg ELSE wd["temperature"]
    IN  (IF "sunrise" \in DOMAIN wd
         THEN <<"Sunrise at " \o StrfHM(wd["sunrise"]) \o " - Great for photography">>
         ELSE <<>>)
        \o
        (IF "sunset" \in DOMAIN wd
         THEN <<"Sunset at " \o StrfHM(wd["sunset"]) \o " - Beautiful evening views">>
         ELSE <<>>)
        \o
        (IF temp > Fixed(30)
         THEN <<"Visit outdoor attractions early morning or late evening to avoid heat">>
         ELSE IF temp < Fixed(10)
         THEN <<"Midday (11 AM - 3 PM) will be warmest for outdoor activities">>
         ELSE <<>>)

\* the heat limit written with >= instead of >
_get_best_travel_times_AtLimit(wd, fc) ==
    LET temp == wd["temperature"]
    IN  (IF "sunrise" \in DOMAIN wd
         THEN <<"Sunrise at " \o StrfHM(wd["sunrise"]) \o " - Great for photography">>
         ELSE <<>>)
        \o
        (IF "sunset" \in DOMAIN wd
         THEN <<"Sunset at " \o StrfHM(wd["sunset"]) \o " - Beautiful evening views">>
         ELSE <<>>)
        \o
        (IF temp >= Fixed(30)
         THEN <<"Visit outdoor attractions early morning or late evening to avoid heat">>
         ELSE IF temp < Fixed(10)
         THEN <<"Midday (11 AM - 3 PM) will be warmest for outdoor activities">>
         ELSE <<>>)

\* weather_data has 'temperature' when this is called
_get_best_travel_times(wd, fc) ==
    LET temp == wd["temperature"]
    IN  (IF "sunrise" \in DOMAIN wd
         THEN <<"Sunrise at " \o StrfHM(wd["sunrise"]) \o " - Great for photography">>
         ELSE <<>>)
        \o
        (IF "sunset" \in DOMAIN wd
         THEN <<"Sunset at " \o StrfHM(wd["sunset"]) \o " - Beautiful evening views">>
         ELSE <<>>)
        \o
        (IF temp > Fixed(30)
         THEN <<"Visit outdoor attractions early morning or late evening to avoid heat">>
         ELSE IF temp < Fixed(10)
         THEN <<"Midday (11 AM - 3 PM) will be warmest for outdoor activities">>
         ELSE <<>>)

\* the forecast analysed whether or not one was given
TravelBundle_AlwaysAnalysed(temperature, rainfall, wind, condition, analysed, forecast_summary, best_times) ==
    [alerts |-> temperature.alerts \o rainfall.alerts \o wind.alerts \o condition.alerts,
     recommendations |-> temperature.recommendations \o rainfall.recommendations
                         \o wind.recommendations \o condition.recommendations
                         \o <<forecast_summary.summary>>,
     packing_list |-> temperature.packing_list \o rainfall.packing_list
                      \o wind.packing_list \o condition.packing_list,
     travel_outlook |-> forecast_summary.outlook,
     best_times |-> best_times]

\* the lists as the four rules, run in this order, leave them, with the
\* forecast summary appended when a forecast was analysed
TravelBundle(temperature, rainfall, wind, condition, analysed, forecast_summary, best_times) ==
    [alerts |-> temperature.alerts \o rainfall.alerts \o wind.alerts \o condition.alerts,
     recommendations |-> temperature.recommendations \o rainfall.recommendations
                         \o wind.recommendations \o condition.recommendations
                         \o (IF analysed THEN <<forecast_summary.summary>> ELSE <<>>),
     packing_list |-> temperature.packing_list \o rainfall.packing_list
                      \o wind.packing_list \o condition.packing_list,
     travel_outlook |-> IF analysed THEN forecast_summary.outlook ELSE "good",
     best_times |-> best_times]

\* the 'main' category tested as it comes, without .lower()
get_travel_recommendations_CaseKept(th, wd, fc) ==
    IF ~({"temperature", "wind_speed"} \subseteq DOMAIN wd)
    THEN Raised("KeyError")
    ELSE
    LET temp == wd["temperature"]
        wind_speed == wd["wind_speed"]
        rain == Get(wd, "rain_1h", 0) + Get(wd, "rain_3h", 0)
        description == Get(wd, "main", <<>>)
    IN  Returned(TravelBundle(TravelTemperatureRule(th, temp),
                              TravelRainRule(th, rain, description),
                              TravelWindRule(th, wind_speed),
                              TravelConditionRule(description),
                              Truthy(fc),
                              _analyze_forecast_for_travel(fc),
                              _get_best_travel_times(wd, fc)))

\* the forecast measured with len() before it is tested: TypeError on None
get_travel_recommendations_LenOfNone(th, wd, fc) ==
    IF ~({"temperature", "wind_speed"} \subseteq DOMAIN wd)
    THEN Raised("KeyError")
    ELSE IF ~fc.given
    THEN Raised("TypeError")
    ELSE
    LET temp == wd["temperature"]
        wind_speed == wd["wind_speed"]
        rain == Get(wd, "rain_1h", 0) + Get(wd, "rain_3h", 0)
        description == Lower(Get(wd, "main", <<>>))
    IN  Returned(TravelBundle(TravelTemperatureRule(th, temp),
                              TravelRainRule(th, rain, description),
                              TravelWindRule(th, wind_speed),
                              TravelConditionRule(description),
                              Truthy(fc),
                              _analyze_forecast_for_travel(fc),
                              _get_best_travel_times(wd, fc)))

\* weather_data['temperature'] and ['wind_speed'] raise KeyError when the key
\* is missing, before any rule runs
get_travel_recommendations(th, wd, fc) ==
    IF ~({"temperature", "wind_speed"} \subseteq DOMAIN wd)
    THEN Raised("KeyError")
    ELSE
    LET temp == wd["temperature"]
        wind_speed == wd["wind_speed"]
        rain == Get(wd, "rain_1h", 0) + Get(wd, "rain_3h", 0)
        description == Lower(Get(wd, "main", <<>>))
    IN  Returned(TravelBundle(TravelTemperatureRule(th, temp),
                              TravelRainRule(th, rain, description),
                              TravelWindRule(th, wind_speed),
                              TravelConditionRule(description),
                              Truthy(fc),
                              _analyze_forecast_for_travel(fc),
                              _get_best_travel_times(wd, fc)))

----------------------------------------------------------------------------
(* The inputs *)

MaxForecastDays == 4

\* temperatures around frost_temp (2), the activity band (10..30) and heat_stress (35)
AgTemperatures == {-50, 10, 20, 21, 99, 100, 200, 300, 301, 349, 350}
\* temperatures around cold_weather (10) and hot_weather (30)
TravelTemperatures == {99, 100, 101, 200, 299, 300, 301}
\* wind speeds around wind_speed_spray and the activity limit (both 20)
AgWindSpeeds == {50, 100, 199, 200, 201, 250}
\* wind speeds around wind_warning (40)
TravelWindSpeeds == {100, 400, 401, 600}
\* humidities around high_humidity (80)
Humidities == {50, 79, 80}
\* rain_1h around the activity limit (1.0); with Rain3h the sum reaches
\* rain_warning (5.0) and rain_threshold (10.0) exactly and passes them
Rain1h == {0, 5, 10}
Rain3h == {0, 45, 95}
Months == 1..12

\* OpenWeatherMap condition categories ('main')
MainValues ==
    {<<"C", "l", "e", "a", "r">>,
     <<"C", "l", "o", "u", "d", "s">>,
     <<"R", "a", "i", "n">>,
     <<"T", "h", "u", "n", "d", "e", "r", "s", "t", "o", "r", "m">>,
     <<"M", "i", "s", "t">>,
     <<"F", "o", "g">>}

Sunrises == {[hour |-> 6, minute |-> 5]}
Sunsets == {[hour |-> 18, minute |-> 30]}

\* the dicts {key: v} for v in values, and the dict without the key
Required(key, values) == {[k \in {key} |-> v] : v \in values}
Optional(key, values) == {EmptyDict} \cup Required(key, values)

RainFields ==
    {Merge(a, b) : a \in Optional("rain_1h", Rain1h), b \in Optional("rain_3h", Rain3h)}

\* snapshots with the fields the agriculture evaluator reads
AgSnapshotsOf(temperatures, wind_speeds, humidities, rains) ==
    {Merge(Merge(Merge(t, w), h), r) :
        t \in Required("temperature", temperatures),
        w \in Required("wind_speed", wind_speeds),
        h \in Required("humidity", humidities),
        r \in rains}

\* snapshots with the fields the travel evaluator reads
TravelSnapshotsOf(temperatures, wind_speeds, rains, mains, suns) ==
    {Merge(Merge(Merge(Merge(t, w), r), m), s) :
        t \in Required("temperature", temperatures),
        w \in Required("wind_speed", wind_speeds),
        r \in rains,
        m \in mains,
        s \in suns}

SunFields ==
    {Merge(a, b) : a \in Optional("sunrise", Sunrises), b \in Optional("sunset", Sunsets)}

AgSnapshots == AgSnapshotsOf(AgTemperatures, AgWindSpeeds, Humidities, RainFields)

TravelSnapshots ==
    TravelSnapshotsOf(TravelTemperatures, TravelWindSpeeds, RainFields,
                      Optional("main", MainValues), SunFields)

\* a few snapshots, to go with every forecast: with and without current rain
TypicalAgSnapshots ==
    AgSnapshotsOf({200}, {100}, {50, 80},
                  {EmptyDict, [k \in {"rain_1h"} |-> 0], [k \in {"rain_3h"} |-> 45]})

TypicalTravelSnapshots ==
    TravelSnapshotsOf({100, 200}, {100, 600}, {EmptyDict},
                      {EmptyDict, [k \in {"main"} |-> <<"M", "i", "s", "t">>]},
                      {EmptyDict})

\* a forecast day, with the fields the evaluators read
ForecastDay(total_rain, temp_avg, wind_speed_max) ==
    [total_rain |-> total_rain, temp_avg |-> temp_avg, wind_speed_max |-> wind_speed_max]

\* days whose sums, means and maxima reach the limits of both evaluators:
\* rain 5.0 (2 x 2.5) and 20.0 (2 x 10.0), mean temperature 15.0 and 28.0,
\* wind 50.0
DryCool == ForecastDay(0, 150, 100)
Showers == ForecastDay(25, 280, 500)
Wet == ForecastDay(100, 200, 100)
Cold == ForecastDay(0, 140, 100)
Hot == ForecastDay(0, 290, 100)
Gale == ForecastDay(0, 200, 510)

ForecastDays == {DryCool, Showers, Wet, Cold, Hot, Gale}

RECURSIVE SeqsUpTo(_, _)
\* the sequences over S of length 0..n
SeqsUpTo(S, n) ==
    IF n = 0 THEN {<<>>}
    ELSE LET shorter == SeqsUpTo(S, n - 1)
         IN  shorter \cup {Append(s, x) : s \in {t \in shorter : Len(t) = n - 1}, x \in S}

Forecasts == {None} \cup {List(days) : days \in SeqsUpTo(ForecastDays, MaxForecastDays)}

\* a few forecasts, to go with every snapshot: absent, empty, and one of each outlook
TypicalForecasts ==
    {None, List(<<>>), List(<<DryCool>>), List(<<Showers, Showers, Showers>>),
     List(<<Wet, Wet, Showers>>)}

TypicalMonths == {1, 7}

----------------------------------------------------------------------------
(* The threads of the application and the frames of their calls *)

Threads == {"t1", "t2"}

\* a thread that has not called the engine
IdleThread ==
    [pc |-> "idle", call |-> "none",
     args |-> [weather_data |-> EmptyDict, forecast |-> None],
     weather_data |-> EmptyDict, forecast |-> None, month |-> 1,
     result |-> NoResult]

\* recommendations = [], alerts = [], tasks = [] or packing_list = []
NoLists == [recommendations |-> <<>>, alerts |-> <<>>, tasks |-> <<>>, packing_list |-> <<>>]

\* the frame of a call that has not read the snapshot
NoFrame ==
    [lists |-> NoLists,
     temp |-> 0, wind_speed |-> 0, humidity |-> 0, rain |-> 0, description |-> <<>>,
     crop_advice |-> <<>>, travel_outlook |-> "good"]

\* no thread has called the engine
NoThreads ==
    /\ threads = [t \in Threads |-> IdleThread]
    /\ frames = [t \in Threads |-> NoFrame]
    /\ started = 0

----------------------------------------------------------------------------
(* The request served by a recommendation endpoint *)

\* request.args.get(name, type=float): None, or the float of the parameter
NoArg == [given |-> FALSE, value |-> 0]
Arg(value) == [given |-> TRUE, value |-> value]

\* no response yet
NoResponse == [status |-> 0]

\* no request has come in
NoRequest ==
    [pc |-> "waiting", endpoint |-> "none", query |-> EmptyDict,
     lat |-> NoArg, lon |-> NoArg,
     weather |-> Raised("none"), forecast |-> Raised("none"),
     recommendations |-> Raised("none"),
     calls |-> <<>>, response |-> NoResponse]

----------------------------------------------------------------------------
(* The state machine: one request, one call of an evaluator *)

\* The request about to be served: the evaluator called, the snapshot, the
\* forecast and the month of the clock.  Every snapshot goes with the typical
\* forecasts, every forecast with the typical snapshots.
AgricultureRequest ==
    /\ call = "agriculture"
    /\ \/ /\ weather_data \in AgSnapshots
          /\ forecast \in TypicalForecasts
          /\ month \in Months
       \/ /\ weather_data \in TypicalAgSnapshots
          /\ forecast \in Forecasts
          /\ month \in TypicalMonths

TravelRequest ==
    /\ call = "travel"
    /\ \/ /\ weather_data \in TravelSnapshots
          /\ forecast \in TypicalForecasts
       \/ /\ weather_data \in TypicalTravelSnapshots
          /\ forecast \in Forecasts
    /\ month \in TypicalMonths

\* RecommendationEngine.__init__, and the request
Init ==
    /\ ag_thresholds = AGRICULTURE_THRESHOLDS
    /\ travel_thresholds = TRAVEL_THRESHOLDS
    /\ (AgricultureRequest \/ TravelRequest)
    /\ pc = "start"
    /\ result = NoResult
    /\ data = <<>>
    /\ day_count = 0
    /\ NoThreads
    /\ request = NoRequest

\* recommendation_engine.get_agriculture_recommendations(weather, forecast)
AgricultureRecommendations ==
    /\ pc = "start"
    /\ call = "agriculture"
    /\ result' = get_agriculture_recommendations(ag_thresholds, weather_data, forecast, month)
    /\ pc' = "done"
    /\ UNCHANGED <<ag_thresholds, travel_thresholds, call, weather_data, forecast, month,
                   data, day_count, threadVars, request>>

\* recommendation_engine.get_travel_recommendations(weather, forecast)
TravelRecommendations ==
    /\ pc = "start"
    /\ call = "travel"
    /\ result' = get_travel_recommendations(travel_thresholds, weather_data, forecast)
    /\ pc' = "done"
    /\ UNCHANGED <<ag_thresholds, travel_thresholds, call, weather_data, forecast, month,
                   data, day_count, threadVars, request>>

Next ==
    \/ AgricultureRecommendations
    \/ TravelRecommendations

Spec == Init /\ [][Next]_vars

----------------------------------------------------------------------------
(* WeatherService._parse_forecast: Python values                           *)
(*                                                                         *)
(* The engine above only compares the floats it is given, and the tenths   *)
(* hold them.  _parse_forecast computes with them: temp_avg is             *)
(* sum(temps) / len(temps), a float sum and a float division, each rounded *)
(* to the nearest float, ties to even.  The temperatures of the readings   *)
(* are therefore held in a binary floating-point format: integers counting *)
(* the smallest step of the format (a quarter of a degree), with a         *)
(* significand of Mantissa binary digits where Python's float has 53.      *)
(* Rain and snow amounts (tenths of a mm) and wind speeds are held as      *)
(* before; the readings' amounts and speeds are multiples of 0.5, on which *)
(* the sums and the product with 3.6 are taken as exact.                   *)

Mantissa == 4

RECURSIVE BitLength(_)
\* the number of binary digits of v >= 1 (1 for v = 0)
BitLength(v) == IF v <= 1 THEN 1 ELSE 1 + BitLength(v \div 2)

\* the distance from one float to the next at the magnitude of v >= 0
Spacing(v) == IF BitLength(v) <= Mantissa THEN 1 ELSE 2 ^ (BitLength(v) - Mantissa)

\* v is a value of the format
IsFloat(v) == LET a == IF v < 0 THEN 0 - v ELSE v IN a % Spacing(a) = 0

\* the float nearest to a / b for a >= 0 and b > 0, ties to the even significand
NearestFloat(a, b) ==
    LET floor == a \div b
        u == Spacing(floor)
        lower == (floor \div u) * u
        upper == lower + u
        twice == 2 * (a - lower * b)
    IN  IF twice < u * b THEN lower
        ELSE IF twice > u * b THEN upper
        ELSE IF (lower \div u) % 2 = 0 THEN lower ELSE upper

\* the float that x + y gives
FloatAdd(x, y) ==
    IF x + y < 0 THEN 0 - NearestFloat(0 - (x + y), 1) ELSE NearestFloat(x + y, 1)

\* the float that x / n gives, n a positive int
FloatDiv(x, n) == IF x < 0 THEN 0 - NearestFloat(0 - x, n) ELSE NearestFloat(x, n)

RECURSIVE FloatSumFrom(_, _)
FloatSumFrom(acc, seq) ==
    IF seq = <<>> THEN acc ELSE FloatSumFrom(FloatAdd(acc, seq[1]), Tail(seq))

\* sum(seq) of floats: the additions are made from left to right, starting
\* from the int 0
FloatSum(seq) == FloatSumFrom(0, seq)

RECURSIVE GCD(_, _)
GCD(a, b) == IF b = 0 THEN a ELSE GCD(b, a % b)

\* num / den of two ints, den > 0 and num >= 0: the quotient, in lowest terms
Quotient(num, den) ==
    LET g == GCD(num, den) IN [num |-> num \div g, den |-> den \div g]

\* seq[:n]; a negative n counts from the end
Slice(seq, n) ==
    IF n >= 0
    THEN SubSeq(seq, 1, IF Len(seq) < n THEN Len(seq) ELSE n)
    ELSE SubSeq(seq, 1, IF Len(seq) + n < 0 THEN 0 ELSE Len(seq) + n)

RECURSIVE Sorted(_)
\* sorted(S) of a set of ints
Sorted(S) ==
    IF S = {} THEN <<>>
    ELSE LET least == CHOOSE x \in S : \A y \in S : x <= y
         IN  <<least>> \o Sorted(S \ {least})

RECURSIVE MinOf(_)
\* min(seq), seq not empty
MinOf(seq) ==
    IF Len(seq) = 1 THEN seq[1]
    ELSE LET m == MinOf(Tail(seq)) IN IF seq[1] <= m THEN seq[1] ELSE m

RECURSIVE MaxOf(_)
\* max(seq), seq not empty
MaxOf(seq) ==
    IF Len(seq) = 1 THEN seq[1]
    ELSE LET m == MaxOf(Tail(seq)) IN IF seq[1] >= m THEN seq[1] ELSE m

\* [i[field] for i in items]
Column(items, field) == [i \in 1..Len(items) |-> items[i][field]]

\* datetime.date() of a local time held in hours
DateOf(dt) == dt \div 24

\* speed * 3.6: m/s to km/h, both in tenths
KmH(speed) == (speed * 36) \div 10

----------------------------------------------------------------------------
(* WeatherService._parse_forecast *)

(* A raw reading is one item of data['list']: a dict with 'dt' (the local  *)
(* time, in hours), 'temp' and 'humidity' (item['main'][...]), 'speed'     *)
(* (item['wind']['speed'], tenths of m/s), 'description' and 'icon'        *)
(* (item['weather'][0][...]), and, when the provider sends them, 'rain'    *)
(* and 'snow': dicts that may hold '3h'.  feels_like, pressure, main and   *)
(* clouds are copied like description and enter no aggregate; they are     *)
(* left out.                                                               *)

\* the dict appended to daily_data[date] for one raw reading
ParseReading(item) ==
    [datetime |-> item["dt"],
     temperature |-> item["temp"],
     humidity |-> item["humidity"],
     wind_speed |-> KmH(item["speed"]),
     description |-> item["description"],
     icon |-> item["icon"],
     rain |-> Get(Get(item, "rain", EmptyDict), "3h", 0),
     snow |-> Get(Get(item, "snow", EmptyDict), "3h", 0)]

\* daily_data after the first loop: each date of the readings, with its
\* readings in the order of the list
DailyData(list) ==
    LET parsed == [i \in 1..Len(list) |-> ParseReading(list[i])]
    IN  [date \in {DateOf(parsed[i].datetime) : i \in 1..Len(list)} |->
            SelectSeq(parsed, LAMBDA r : DateOf(r.datetime) = date)]

RECURSIVE InsertionOrder(_, _)
\* the keys of daily_data in the order the first loop inserted them
InsertionOrder(list, seen) ==
    IF list = <<>> THEN <<>>
    ELSE LET date == DateOf(list[1]["dt"])
         IN  IF date \in seen THEN InsertionOrder(Tail(list), seen)
             ELSE <<date>> \o InsertionOrder(Tail(list), seen \cup {date})

\* the description and icon taken at index (len(items) - 1) // 2
DailyForecast_LowerMiddle(date, items) ==
    LET temps == Column(items, "temperature")
        middle == items[(Len(items) - 1) \div 2 + 1]
    IN  [date |-> date,
         temp_min |-> MinOf(temps),
         temp_max |-> MaxOf(temps),
         temp_avg |-> FloatDiv(FloatSum(temps), Len(temps)),
         humidity_avg |-> Quotient(SumField(items, "humidity"), Len(items)),
         wind_speed_max |-> MaxField(items, "wind_speed"),
         total_rain |-> SumField(items, "rain"),
         total_snow |-> SumField(items, "snow"),
         description |-> middle.description,
         icon |-> middle.icon,
         details |-> items]

\* the dict appended to forecasts for one date; items[len(items)//2] is the
\* element len(items) \div 2 + 1 of a sequence that counts from 1
DailyForecast(date, items) ==
    LET temps == Column(items, "temperature")
        middle == items[Len(items) \div 2 + 1]
    IN  [date |-> date,
         temp_min |-> MinOf(temps),
         temp_max |-> MaxOf(temps),
         temp_avg |-> FloatDiv(FloatSum(temps), Len(temps)),
         humidity_avg |-> Quotient(SumField(items, "humidity"), Len(items)),
         wind_speed_max |-> MaxField(items, "wind_speed"),
         total_rain |-> SumField(items, "rain"),
         total_snow |-> SumField(items, "snow"),
         description |-> middle.description,
         icon |-> middle.icon,
         details |-> items]

\* the second loop without sorted(): the dates as the dict holds them
_parse_forecast_Unsorted(list, n) ==
    LET daily_data == DailyData(list)
        dates == Slice(InsertionOrder(list, {}), n)
    IN  [i \in 1..Len(dates) |-> DailyForecast(dates[i], daily_data[dates[i]])]

\* sorted(daily_data.items()) orders the (date, items) pairs by date, the
\* dates being distinct
_parse_forecast(list, n) ==
    LET daily_data == DailyData(list)
        dates == Slice(Sorted(DOMAIN daily_data), n)
    IN  [i \in 1..Len(dates) |-> DailyForecast(dates[i], daily_data[dates[i]])]

----------------------------------------------------------------------------
(* The forecast request: its inputs and its state machine *)

MaxReadings == 4

\* a raw reading without 'rain' and 'snow'
RawReading(dt, temp, humidity, speed, description, icon) ==
    [k \in {"dt", "temp", "humidity", "speed", "description", "icon"} |->
        CASE k = "dt" -> dt
          [] k = "temp" -> temp
          [] k = "humidity" -> humidity
          [] k = "speed" -> speed
          [] k = "description" -> description
          [] k = "icon" -> icon]

\* item['rain'] or item['snow'] holding '3h'
ThreeHours(amount) == [k \in {"3h"} |-> amount]

\* readings of four dates: two of the first, two of the second (one with a
\* 'rain' dict that has no '3h'), one of the third and one of the fourth
Readings ==
    {RawReading(3, 14, 60, 25, "clear sky", "01n"),
     Merge(RawReading(12, 20, 75, 50, "light rain", "10d"),
           [k \in {"rain"} |-> ThreeHours(25)]),
     Merge(RawReading(27, 9, 80, 100, "light snow", "13n"),
           [k \in {"rain", "snow"} |-> IF k = "rain" THEN EmptyDict ELSE ThreeHours(10)]),
     Merge(RawReading(45, 14, 50, 75, "overcast clouds", "04d"),
           [k \in {"rain"} |-> ThreeHours(5)]),
     RawReading(60, 24, 40, 25, "few clouds", "02d"),
     Merge(RawReading(90, 12, 90, 150, "heavy intensity rain", "10n"),
           [k \in {"rain"} |-> ThreeHours(100)])}

\* eight three-hourly readings over two dates, four each
EightReadings ==
    <<RawReading(12, 20, 60, 25, "clear sky", "01d"),
      RawReading(15, 24, 55, 50, "few clouds", "02d"),
      RawReading(18, 20, 65, 25, "scattered clouds", "03d"),
      RawReading(21, 14, 70, 25, "broken clouds", "04n"),
      RawReading(24, 12, 80, 25, "overcast clouds", "04n"),
      RawReading(27, 10, 85, 50, "mist", "50n"),
      RawReading(30, 12, 80, 75, "light rain", "10d"),
      RawReading(33, 20, 60, 100, "moderate rain", "10d")>>

\* one reading on each of five dates, the dates not in order
FiveDates ==
    <<RawReading(80, 20, 60, 25, "clear sky", "01d"),
      RawReading(30, 14, 60, 25, "few clouds", "02d"),
      RawReading(100, 24, 60, 25, "light rain", "10d"),
      RawReading(10, 12, 60, 25, "mist", "50d"),
      RawReading(60, 10, 60, 25, "overcast clouds", "04d")>>

\* three readings of one date with one temperature
SteadyDay ==
    <<RawReading(6, 14, 60, 25, "clear sky", "01d"),
      RawReading(9, 14, 55, 50, "clear sky", "01d"),
      RawReading(12, 14, 50, 50, "few clouds", "02d")>>

RawLists == SeqsUpTo(Readings, MaxReadings) \cup {EightReadings, FiveDates, SteadyDay}

\* request.args.get('days', default=5, type=int): any int the client sends
DayCounts == {-1, 0, 1, 2, 3, 5}

\* the engine is constructed and not called; the request is for a forecast
ForecastInit ==
    /\ ag_thresholds = AGRICULTURE_THRESHOLDS
    /\ travel_thresholds = TRAVEL_THRESHOLDS
    /\ call = "forecast"
    /\ weather_data = EmptyDict
    /\ forecast = None
    /\ month = 1
    /\ pc = "start"
    /\ result = NoResult
    /\ data \in RawLists
    /\ \A i \in 1..Len(data) : IsFloat(data[i]["temp"])
    /\ day_count \in DayCounts
    /\ NoThreads
    /\ request = NoRequest

\* GET /api/weather/forecast with lat and lon, the provider answering with
\* data: weather_service.get_forecast(lat, lon, days) returns
\* self._parse_forecast(data, days)
GetForecast ==
    /\ pc = "start"
    /\ call = "forecast"
    /\ result' = Returned(_parse_forecast(data, day_count))
    /\ pc' = "done"
    /\ UNCHANGED <<ag_thresholds, travel_thresholds, call, weather_data, forecast, month,
                   data, day_count, threadVars, request>>

ForecastNext == GetForecast

ForecastSpec == ForecastInit /\ [][ForecastNext]_vars

----------------------------------------------------------------------------
(* Properties: what they speak about *)

AgDone == pc = "done" /\ call = "agriculture" /\ result.status = "returned"
TravelDone == pc = "done" /\ call = "travel" /\ result.status = "returned"

Bundle == result.bundle

Temperature == weather_data["temperature"]
WindSpeed == weather_data["wind_speed"]
Humidity == weather_data["humidity"]
RainOneHour == Get(weather_data, "rain_1h", 0)
Rain == Get(weather_data, "rain_1h", 0) + Get(weather_data, "rain_3h", 0)

Contains(seq, x) == \E i \in 1..Len(seq) : seq[i] = x
Titles(alerts) == [i \in 1..Len(alerts) |-> alerts[i].title]
HasAlert(title) == \E i \in 1..Len(Bundle.alerts) : Bundle.alerts[i].title = title
\* an alert of that title is there, and every alert of that title has this type and severity
HasAlertOf(title, type, severity) ==
    /\ HasAlert(title)
    /\ \A i \in 1..Len(Bundle.alerts) :
          Bundle.alerts[i].title = title
              => Bundle.alerts[i].type = type /\ Bundle.alerts[i].severity = severity
HasTask(task) == Contains(Bundle.tasks, task)
HasAdvice(text) == Contains(Bundle.recommendations, text)

FrostTask == "Cover sensitive crops or use frost protection methods"
HeatTask == "Increase irrigation frequency"
PostponeSprayingTask == "Postpone spraying operations until wind subsides"
GoodSprayingTask == "Good conditions for spraying operations"
SkipIrrigationTask == "Skip irrigation today - sufficient rainfall"
RegularIrrigationTask == "Regular irrigation recommended"
FungicideTask == "Apply preventive fungicide if needed"
FungalAdvice == "Monitor crops for signs of fungal infection"

----------------------------------------------------------------------------
(* C1 *)

\* C1: an agriculture bundle never holds both the Frost Warning and the Heat
\* Stress alert; with the default thresholds the frost alert (danger,
\* critical) and the frost-protection task are there exactly when
\* temperature <= 2, the heat-stress alert (warning, high) and the
\* increase-irrigation task exactly when temperature >= 35.
C1_FrostHeatExclusive ==
    AgDone =>
        /\ ~(HasAlert("Frost Warning") /\ HasAlert("Heat Stress Alert"))
        /\ HasAlert("Frost Warning") <=> Temperature <= Fixed(2)
        /\ HasAlert("Frost Warning") => HasAlertOf("Frost Warning", "danger", "critical")
        /\ HasTask(FrostTask) <=> Temperature <= Fixed(2)
        /\ HasAlert("Heat Stress Alert") <=> Temperature >= Fixed(35)
        /\ HasAlert("Heat Stress Alert") => HasAlertOf("Heat Stress Alert", "warning", "high")
        /\ HasTask(HeatTask) <=> Temperature >= Fixed(35)

\* the spec's case, temperature = -5: a frost alert and no heat-stress alert
C1_Witness ==
    /\ AgDone
    /\ Temperature = Fixed(-5)
    /\ HasAlertOf("Frost Warning", "danger", "critical")
    /\ HasTask(FrostTask)
    /\ ~HasAlert("Heat Stress Alert")

----------------------------------------------------------------------------
(* C2 *)

\* C2: with rain_1h + rain_3h = 0 and any forecast argument, an empty list or
\* None included, the agriculture bundle has exactly one of the two outcomes:
\* the plan-irrigation advisory when the first three days' total_rain sums to
\* more than 5, otherwise the regular-irrigation task.
C2_DryAlwaysAdvisesIrrigation ==
    (AgDone /\ Rain = 0) =>
        IF UpcomingRain(forecast) > Fixed(5)
        THEN HasAdvice(RainExpectedText(UpcomingRain(forecast)))
             /\ ~HasTask(RegularIrrigationTask)
        ELSE HasTask(RegularIrrigationTask)
             /\ ~HasAdvice(RainExpectedText(UpcomingRain(forecast)))

----------------------------------------------------------------------------
(* C3 *)

----------------------------------------------------------------------------
(* C4 *)

\* C4: suitable_activities is decided by a first-match chain on rain_1h alone
\* (not rain_3h), wind_speed and temperature: the full 5-item set iff
\* rain_1h < 1, wind_speed < 20 and 10 <= temperature <= 30; else the reduced
\* 3-item set iff rain_1h < 1 and wind_speed < 20; else the indoor 3-item set
\* iff rain_1h >= 1; else the empty list, which therefore occurs exactly when
\* rain_1h < 1 and wind_speed >= 20.
C4_SuitableActivities ==
    AgDone =>
        LET activities == Bundle.suitable_activities
            calm == RainOneHour < Fixed(1) /\ WindSpeed < Fixed(20)
            mild == Fixed(10) <= Temperature /\ Temperature <= Fixed(30)
        IN  /\ activities \in {FullActivities, ReducedActivities, IndoorActivities, <<>>}
            /\ Len(FullActivities) = 5 /\ Len(ReducedActivities) = 3
            /\ Len(IndoorActivities) = 3
            /\ activities = FullActivities <=> (calm /\ mild)
            /\ activities = ReducedActivities <=> (calm /\ ~mild)
            /\ activities = IndoorActivities <=> RainOneHour >= Fixed(1)
            /\ activities = <<>> <=> (RainOneHour < Fixed(1) /\ WindSpeed >= Fixed(20))

\* the spec's case rain_1h = 0, wind_speed = 25, temperature = 20: the empty
\* list, here with rain_3h = 9.5 to show that rain_3h is not looked at
C4_Witness ==
    /\ AgDone
    /\ RainOneHour = 0 /\ "rain_1h" \in DOMAIN weather_data
    /\ Get(weather_data, "rain_3h", 0) = 95
    /\ WindSpeed = Fixed(25) /\ Temperature = Fixed(20)
    /\ Bundle.suitable_activities = <<>>

----------------------------------------------------------------------------
(* C5 *)

\* where a task stands in the order spraying, temperature, irrigation, fungicide
TaskRank(task) ==
    IF task \in {PostponeSprayingTask, GoodSprayingTask} THEN 1
    ELSE IF task \in {FrostTask, HeatTask} THEN 2
    ELSE IF task \in {SkipIrrigationTask, RegularIrrigationTask} THEN 3
    ELSE IF task = FungicideTask THEN 4
    ELSE 0

\* the alert titles of the agriculture rules that fire on the snapshot, in rule order
AgAlertTitlesDue ==
    (IF WindSpeed > Fixed(ag_thresholds.wind_speed_spray)
     THEN <<"High Wind Alert">> ELSE <<>>)
    \o (IF Temperature <= Fixed(ag_thresholds.frost_temp) THEN <<"Frost Warning">>
        ELSE IF Temperature >= Fixed(ag_thresholds.heat_stress) THEN <<"Heat Stress Alert">>
        ELSE <<>>)
    \o (IF Humidity >= ag_thresholds.high_humidity
        THEN <<"High Humidity Alert">> ELSE <<>>)

\* C5: the alerts of an agriculture bundle are exactly the ordered subsequence
\* of [High Wind, Frost or Heat, High Humidity] made of the rules that fired
\* (no duplicate, no other alert, at most 3); the tasks follow the order
\* spraying, temperature, irrigation, fungicide; a snapshot with
\* temperature <= frost_temp, wind_speed <= wind_speed_spray and
\* humidity < high_humidity yields exactly one alert, the critical Frost Warning.
C5_AlertAndTaskOrder ==
    AgDone =>
        /\ Titles(Bundle.alerts) = AgAlertTitlesDue
        /\ Len(Bundle.alerts) <= 3
        /\ \A i \in 1..Len(Bundle.tasks) : TaskRank(Bundle.tasks[i]) > 0
        /\ \A i, j \in 1..Len(Bundle.tasks) :
              i < j => TaskRank(Bundle.tasks[i]) < TaskRank(Bundle.tasks[j])
        /\ (/\ Temperature <= Fixed(ag_thresholds.frost_temp)
            /\ WindSpeed <= Fixed(ag_thresholds.wind_speed_spray)
            /\ Humidity < ag_thresholds.high_humidity)
           => /\ Len(Bundle.alerts) = 1
              /\ Bundle.alerts[1].title = "Frost Warning"
              /\ Bundle.alerts[1].severity = "critical"

\* all four rules fired: three alerts and four tasks, in rule order
C5_Witness ==
    /\ AgDone
    /\ Titles(Bundle.alerts) = <<"High Wind Alert", "Frost Warning", "High Humidity Alert">>
    /\ Bundle.tasks = <<PostponeSprayingTask, FrostTask, RegularIrrigationTask, FungicideTask>>

\* the spec's frost scenario: temperature 1.0, wind 5, humidity 50, no rain
C5_FrostScenario ==
    /\ AgDone
    /\ Temperature = Fixed(1) /\ WindSpeed = Fixed(5) /\ Humidity = 50 /\ Rain = 0
    /\ Len(Bundle.alerts) = 1
    /\ Bundle.alerts[1].title = "Frost Warning"
    /\ Bundle.alerts[1].severity = "critical"
    /\ HasTask(FrostTask)

----------------------------------------------------------------------------
(* C6 *)

\* C6: the first task of an agriculture bundle is one of the two spraying
\* tasks and no later task is: the postpone task, with a High Wind alert
\* (warning, high), iff wind_speed > wind_speed_spray; the affirmative task,
\* with no High Wind alert, iff wind_speed <= wind_speed_spray.
C6_SprayingTaskFirst ==
    AgDone =>
        LET windy == WindSpeed > Fixed(ag_thresholds.wind_speed_spray)
        IN  /\ Len(Bundle.tasks) >= 1
            /\ Bundle.tasks[1] = (IF windy THEN PostponeSprayingTask ELSE GoodSprayingTask)
            /\ \A i \in 2..Len(Bundle.tasks) :
                  Bundle.tasks[i] \notin {PostponeSprayingTask, GoodSprayingTask}
            /\ HasAlert("High Wind Alert") <=> windy
            /\ windy => HasAlertOf("High Wind Alert", "warning", "high")

\* wind_speed exactly at the threshold: the affirmative task, no alert
C6_Witness ==
    /\ AgDone
    /\ WindSpeed = Fixed(ag_thresholds.wind_speed_spray)
    /\ Bundle.tasks[1] = GoodSprayingTask
    /\ ~HasAlert("High Wind Alert")

----------------------------------------------------------------------------
(* C7 *)

\* C7: the High Humidity alert (info, medium), the fungal-infection advisory
\* and the preventive-fungicide task are all three in the agriculture bundle
\* iff humidity >= high_humidity (80 by default, inclusive), and none of them
\* otherwise, whichever wind, temperature and rain rules fired.
C7_HumidityRule ==
    AgDone =>
        LET humid == Humidity >= 80
        IN  /\ ag_thresholds.high_humidity = 80
            /\ HasAlert("High Humidity Alert") <=> humid
            /\ humid => HasAlertOf("High Humidity Alert", "info", "medium")
            /\ HasAdvice(FungalAdvice) <=> humid
            /\ HasTask(FungicideTask) <=> humid

\* humidity exactly 80 while the wind, frost and heavy-rain rules fire too
C7_Witness ==
    /\ AgDone
    /\ Humidity = 80
    /\ HasAlert("High Wind Alert") /\ HasAlert("Frost Warning")
    /\ HasTask(SkipIrrigationTask)
    /\ HasAlertOf("High Humidity Alert", "info", "medium")
    /\ HasAdvice(FungalAdvice) /\ HasTask(FungicideTask)

----------------------------------------------------------------------------
(* C8 *)

\* the season the claim gives each month
SeasonOfMonth(m) ==
    IF m \in {12, 1, 2} THEN "winter"
    ELSE IF m \in {3, 4, 5} THEN "spring"
    ELSE IF m \in {6, 7, 8} THEN "summer"
    ELSE "autumn"

CropAdviceStrings ==
    {crop_calendar[season][i] : season \in DOMAIN crop_calendar, i \in 1..3}

\* C8: the season is winter for months 12, 1, 2, spring for 3, 4, 5, summer
\* for 6, 7, 8 and autumn for 9, 10, 11; in every month and for every snapshot
\* crop_advice is the 3 strings of that season and the recommendations end
\* with the same 3 strings in the same order, after the weather-derived ones.
C8_SeasonalAdvice ==
    AgDone =>
        LET recs == Bundle.recommendations
            n == Len(recs)
        IN  /\ _get_season(month) = SeasonOfMonth(month)
            /\ Bundle.crop_advice = crop_calendar[SeasonOfMonth(month)]
            /\ Len(Bundle.crop_advice) = 3
            /\ n >= 3
            /\ SubSeq(recs, n - 2, n) = Bundle.crop_advice
            /\ \A i \in 1..(n - 3) : recs[i] \notin CropAdviceStrings

\* December, winter advice, after two weather-derived advisories
C8_Witness ==
    /\ AgDone
    /\ month = 12
    /\ Bundle.crop_advice = crop_calendar["winter"]
    /\ Len(Bundle.recommendations) = 5
    /\ SubSeq(Bundle.recommendations, 3, 5) = crop_calendar["winter"]

----------------------------------------------------------------------------
(* C9 *)

Description == Lower(Get(weather_data, "main", <<>>))

\* the alert titles of the travel rules that fire on the snapshot, in rule order
TravelAlertTitlesDue ==
    (IF Rain > Fixed(travel_thresholds.rain_warning) \/ In(Str_rain, Description)
     THEN <<"Rain Expected">> ELSE <<>>)
    \o (IF WindSpeed > Fixed(travel_thresholds.wind_warning)
        THEN <<"Strong Winds">> ELSE <<>>)
    \o (IF In(Str_clear, Description) \/ In(Str_sun, Description) THEN <<>>
        ELSE IF In(Str_storm, Description) \/ In(Str_thunder, Description)
        THEN <<"Storm Warning">>
        ELSE IF In(Str_fog, Description) \/ In(Str_mist, Description)
        THEN <<"Poor Visibility">>
        ELSE <<>>)

\* C9: the alerts of a travel bundle are exactly the ordered subsequence of
\* [Rain Expected, Strong Winds, Storm Warning or Poor Visibility] made of the
\* rules that fired; the Strong Winds alert (warning, high) is there iff
\* wind_speed > wind_warning, whatever the other rules do.
C9_TravelAlerts ==
    TravelDone =>
        /\ Titles(Bundle.alerts) = TravelAlertTitlesDue
        /\ HasAlert("Strong Winds") <=> WindSpeed > Fixed(travel_thresholds.wind_warning)
        /\ HasAlert("Strong Winds") => HasAlertOf("Strong Winds", "warning", "high")

\* the spec's case: wind_speed 60, a storm category, temperature 20, no rain:
\* exactly two alerts, Strong Winds then Storm Warning
C9_Witness ==
    /\ TravelDone
    /\ WindSpeed = Fixed(60) /\ Temperature = Fixed(20) /\ Rain = 0
    /\ In(Str_storm, Description)
    /\ Titles(Bundle.alerts) = <<"Strong Winds", "Storm Warning">>

----------------------------------------------------------------------------
(* C10 *)

OutlookSummaries == {PoorOutlook.summary, ExcellentOutlook.summary, FairOutlook.summary}

ForecastTotalRain == SumField(forecast.days, "total_rain")
ForecastTempSum == SumField(forecast.days, "temp_avg")
ForecastWindOver(limit) ==
    \E i \in 1..Len(forecast.days) : forecast.days[i].wind_speed_max > limit
\* lo <= mean temp_avg <= hi, for a forecast that is not empty
ForecastMeanTempWithin(lo, hi) ==
    /\ lo * Len(forecast.days) <= ForecastTempSum
    /\ ForecastTempSum <= hi * Len(forecast.days)

\* C10: for a forecast that is not empty the travel outlook is 'poor' iff the
\* summed total_rain > 20 or the largest wind_speed_max > 50; otherwise
\* 'excellent' iff the summed total_rain < 5 and 15 <= mean temp_avg <= 28;
\* otherwise 'fair'; and the one summary string of that outlook is the last
\* recommendation, with no other summary string in the list.
C10_ForecastOutlook ==
    (TravelDone /\ Truthy(forecast)) =>
        LET recs == Bundle.recommendations
            poor == ForecastTotalRain > Fixed(20) \/ ForecastWindOver(Fixed(50))
            excellent == /\ ForecastTotalRain < Fixed(5)
                         /\ ForecastMeanTempWithin(Fixed(15), Fixed(28))
        IN  /\ Bundle.travel_outlook =
                  (IF poor THEN "poor" ELSE IF excellent THEN "excellent" ELSE "fair")
            /\ Len(recs) >= 1
            /\ recs[Len(recs)] =
                  (IF poor THEN PoorOutlook.summary
                   ELSE IF excellent THEN ExcellentOutlook.summary
                   ELSE FairOutlook.summary)
            /\ \A i \in 1..(Len(recs) - 1) : recs[i] \notin OutlookSummaries

\* a forecast that passes the excellent test and has wind over 50: poor
C10_Witness ==
    /\ TravelDone /\ Truthy(forecast)
    /\ ForecastTotalRain < Fixed(5)
    /\ ForecastMeanTempWithin(Fixed(15), Fixed(28))
    /\ ForecastWindOver(Fixed(50))
    /\ Bundle.travel_outlook = "poor"
    /\ Bundle.recommendations[Len(Bundle.recommendations)] = PoorOutlook.summary

----------------------------------------------------------------------------
(* C11 *)

NoForecast == ~forecast.given \/ forecast.days = <<>>

\* C11: the travel outlook is 'good' iff the forecast is None or empty; with a
\* forecast that is not empty it is one of 'poor', 'excellent', 'fair'; the
\* outlook 'unknown' and the summary 'No forecast data available' are in no
\* bundle that get_travel_recommendations returns.
C11_OutlookValues ==
    TravelDone =>
        /\ Bundle.travel_outlook = "good" <=> NoForecast
        /\ ~NoForecast => Bundle.travel_outlook \in {"poor", "excellent", "fair"}
        /\ Bundle.travel_outlook # "unknown"
        /\ ~HasAdvice("No forecast data available")

\* an empty list, which is not None: outlook 'good'
C11_Witness ==
    /\ TravelDone
    /\ forecast.given /\ forecast.days = <<>>
    /\ Bundle.travel_outlook = "good"

----------------------------------------------------------------------------
(* C12 *)

ColdAdvice(temp) == "Cold weather (" \o Format1f(temp) \o " C). Pack warm clothing."
HotAdvice(temp) ==
    "Hot weather (" \o Format1f(temp) \o " C). Stay hydrated and use sun protection."
TemperatureAdvices == {ColdAdvice(t) : t \in TravelTemperatures}
                          \cup {HotAdvice(t) : t \in TravelTemperatures}

IsCold == Temperature <= Fixed(travel_thresholds.cold_weather)
IsHot == ~IsCold /\ Temperature >= Fixed(travel_thresholds.hot_weather)

\* the packing items of the temperature branch the snapshot selects
TemperaturePackingDue ==
    IF IsCold THEN <<"Warm jacket", "Gloves", "Scarf", "Thermal wear">>
    ELSE IF IsHot
    THEN <<"Sunscreen", "Hat", "Sunglasses", "Light clothing", "Water bottle">>
    ELSE <<"Light jacket", "Comfortable clothing">>

TemperaturePackingItems ==
    {"Warm jacket", "Gloves", "Scarf", "Thermal wear",
     "Sunscreen", "Hat", "Sunglasses", "Light clothing", "Water bottle",
     "Light jacket", "Comfortable clothing"}

StartsWith(seq, prefix) ==
    Len(seq) >= Len(prefix) /\ SubSeq(seq, 1, Len(prefix)) = prefix

\* C12: the packing list starts with the 4 cold items and the cold advisory
\* is there iff temperature <= cold_weather; else with the 5 hot items and
\* the hydration advisory iff temperature >= hot_weather; else with the 2
\* default items and no temperature advisory; no item of the two other
\* temperature lists is anywhere in the packing list.
C12_TemperaturePacking ==
    TravelDone =>
        LET due == TemperaturePackingDue
            packing == Bundle.packing_list
        IN  /\ Len(due) = (IF IsCold THEN 4 ELSE IF IsHot THEN 5 ELSE 2)
            /\ StartsWith(packing, due)
            /\ \A i \in 1..Len(packing) :
                  packing[i] \in TemperaturePackingItems => Contains(due, packing[i])
            /\ HasAdvice(ColdAdvice(Temperature)) <=> IsCold
            /\ HasAdvice(HotAdvice(Temperature)) <=> IsHot
            /\ \A i \in 1..Len(Bundle.recommendations) :
                  Bundle.recommendations[i] \in TemperatureAdvices
                      => /\ IsCold \/ IsHot
                         /\ i = 1
                         /\ Bundle.recommendations[i] =
                               (IF IsCold THEN ColdAdvice(Temperature)
                                ELSE HotAdvice(Temperature))

\* exactly at the cold limit: the cold list and the cold advisory
C12_Witness ==
    /\ TravelDone
    /\ Temperature = Fixed(travel_thresholds.cold_weather)
    /\ StartsWith(Bundle.packing_list, <<"Warm jacket", "Gloves", "Scarf", "Thermal wear">>)
    /\ Bundle.recommendations[1] = "Cold weather (10.0 C). Pack warm clothing."

----------------------------------------------------------------------------
(* C13 *)

RainFires == Rain > Fixed(travel_thresholds.rain_warning) \/ In(Str_rain, Description)

\* C13: the Rain Expected alert (warning, medium) and the indoor-activity
\* advisory are in the bundle iff rain_1h + rain_3h > rain_warning or the
\* lower-cased 'main' contains 'rain'; the packing list is then the items of
\* the temperature branch followed by Umbrella, Raincoat, Waterproof bag, and
\* otherwise exactly the items of the temperature branch.
C13_RainRule ==
    TravelDone =>
        /\ HasAlert("Rain Expected") <=> RainFires
        /\ RainFires => HasAlertOf("Rain Expected", "warning", "medium")
        /\ HasAdvice("Consider indoor attractions or activities") <=> RainFires
        /\ Bundle.packing_list =
              TemperaturePackingDue
                  \o (IF RainFires THEN <<"Umbrella", "Raincoat", "Waterproof bag">>
                      ELSE <<>>)

\* no rain amount, the category 'Rain' with a capital: the rule fires, after
\* the hot list
C13_Witness ==
    /\ TravelDone
    /\ Rain = 0
    /\ Get(weather_data, "main", <<>>) = <<"R", "a", "i", "n">>
    /\ IsHot
    /\ HasAlert("Rain Expected")
    /\ Bundle.packing_list =
          <<"Sunscreen", "Hat", "Sunglasses", "Light clothing", "Water bottle",
            "Umbrella", "Raincoat", "Waterproof bag">>

----------------------------------------------------------------------------
(* C14 *)

SightseeingAdvice == "Perfect weather for sightseeing and outdoor activities!"
PostponeAdvice == "Postpone outdoor plans. Seek shelter."
DrivingAdvice == "Exercise caution while driving. Allow extra travel time."

IsClear == In(Str_clear, Description) \/ In(Str_sun, Description)
IsStorm == ~IsClear /\ (In(Str_storm, Description) \/ In(Str_thunder, Description))
IsFog == ~IsClear /\ ~IsStorm /\ (In(Str_fog, Description) \/ In(Str_mist, Description))

\* how many of the three condition outcomes are in the bundle
ConditionOutcomes ==
    (IF HasAdvice(SightseeingAdvice) THEN 1 ELSE 0)
    + (IF HasAlert("Storm Warning") \/ HasAdvice(PostponeAdvice) THEN 1 ELSE 0)
    + (IF HasAlert("Poor Visibility") \/ HasAdvice(DrivingAdvice) THEN 1 ELSE 0)

----------------------------------------------------------------------------
(* C15 *)

SunriseLine == "Sunrise at " \o StrfHM(weather_data["sunrise"]) \o " - Great for photography"
SunsetLine == "Sunset at " \o StrfHM(weather_data["sunset"]) \o " - Beautiful evening views"

\* C15: best_times is the sunrise line iff 'sunrise' is present, then the
\* sunset line iff 'sunset' is present, then the early-morning/late-evening
\* suggestion iff temperature > 30 or else the midday suggestion iff
\* temperature < 10; with neither sunrise nor sunset the call returns and
\* the list has at most one entry.
C15_BestTimes ==
    /\ TravelDone =>
          Bundle.best_times =
              (IF "sunrise" \in DOMAIN weather_data THEN <<SunriseLine>> ELSE <<>>)
              \o (IF "sunset" \in DOMAIN weather_data THEN <<SunsetLine>> ELSE <<>>)
              \o (IF Temperature > Fixed(30)
                  THEN <<"Visit outdoor attractions early morning or late evening to avoid heat">>
                  ELSE IF Temperature < Fixed(10)
                  THEN <<"Midday (11 AM - 3 PM) will be warmest for outdoor activities">>
                  ELSE <<>>)
    /\ (pc = "done" /\ call = "travel" /\ DOMAIN weather_data \cap {"sunrise", "sunset"} = {}) =>
          /\ result.status = "returned"
          /\ Len(Bundle.best_times) <= 1

\* no sunrise, no sunset, exactly 30 degrees: an empty list
C15_Witness ==
    /\ TravelDone
    /\ DOMAIN weather_data \cap {"sunrise", "sunset"} = {}
    /\ Temperature = Fixed(30)
    /\ Bundle.best_times = <<>>

\* sunset only, 9.9 degrees: the sunset line, then the midday suggestion
C15_SunsetOnly ==
    /\ TravelDone
    /\ "sunrise" \notin DOMAIN weather_data
    /\ Temperature < Fixed(10)
    /\ Bundle.best_times =
          <<"Sunset at 18:30 - Beautiful evening views",
            "Midday (11 AM - 3 PM) will be warmest for outdoor activities">>

----------------------------------------------------------------------------
(* C20 *)

\* forecasts that are not empty, to compare a call without forecast with
SuppliedForecasts ==
    {f \in TypicalForecasts : Truthy(f)} \cup {List(<<d>>) : d \in ForecastDays}

\* seq without the entries that are in the set drop
Without(seq, drop) == SelectSeq(seq, LAMBDA x : x \notin drop)

ForecastAdvices ==
    OutlookSummaries \cup {UnknownOutlook.summary}
        \cup {RainExpectedText(UpcomingRain(f)) : f \in SuppliedForecasts}

\* the same travel call with the forecast f
TravelWith(f) == get_travel_recommendations(travel_thresholds, weather_data, f)
\* the same agriculture call with the forecast f
AgricultureWith(f) ==
    get_agriculture_recommendations(ag_thresholds, weather_data, f, month)

\* C20: with the forecast None or empty both evaluators return.  The travel
\* bundle then has the outlook 'good' and no forecast summary, and its
\* alerts, packing list, best times and other advisories are those of the
\* same call with a forecast.  The agriculture bundle has the alerts,
\* suitable activities and crop advice of the same call with a forecast, and
\* its tasks and advisories are those of the call with a forecast less what
\* the forecast itself adds (the regular-irrigation task, the rain-expected
\* advisory).
C20_NoForecast ==
    (pc = "done" /\ NoForecast) =>
        /\ result.status = "returned"
        /\ call = "travel" =>
              /\ Bundle.travel_outlook = "good"
              /\ \A i \in 1..Len(Bundle.recommendations) :
                    Bundle.recommendations[i] \notin ForecastAdvices
              /\ \A f \in SuppliedForecasts :
                    LET with == TravelWith(f).bundle
                    IN  /\ with.alerts = Bundle.alerts
                        /\ with.packing_list = Bundle.packing_list
                        /\ with.best_times = Bundle.best_times
                        /\ Without(with.recommendations, ForecastAdvices)
                              = Bundle.recommendations
        /\ call = "agriculture" =>
              \A f \in SuppliedForecasts :
                  LET with == AgricultureWith(f).bundle
                  IN  /\ with.alerts = Bundle.alerts
                      /\ with.suitable_activities = Bundle.suitable_activities
                      /\ with.crop_advice = Bundle.crop_advice
                      /\ Without(with.tasks, {RegularIrrigationTask}) = Bundle.tasks
                      /\ Without(with.recommendations, ForecastAdvices)
                            = Bundle.recommendations

\* a travel call with None and a storm: the alerts of the call with a forecast
C20_Witness ==
    /\ pc = "done" /\ call = "travel" /\ ~forecast.given
    /\ result.status = "returned"
    /\ HasAlert("Storm Warning")
    /\ Bundle.travel_outlook = "good"
    /\ TravelWith(List(<<Gale>>)).bundle.alerts = Bundle.alerts
    /\ TravelWith(List(<<Gale>>)).bundle.travel_outlook = "poor"

\* an agriculture call with the empty list and current rain
C20_EmptyListWitness ==
    /\ pc = "done" /\ call = "agriculture" /\ forecast = List(<<>>)
    /\ result.status = "returned"
    /\ Rain > 0
    /\ AgricultureWith(List(<<Wet>>)).bundle.tasks = Bundle.tasks

----------------------------------------------------------------------------
(* The forecast request: what the properties speak about *)

ForecastDone == pc = "done" /\ call = "forecast" /\ result.status = "returned"

\* the list _parse_forecast returned
Entries == result.bundle

EntryDates == {Entries[i].date : i \in 1..Len(Entries)}

\* the calendar dates that have a raw reading
InputDates == {DateOf(data[i]["dt"]) : i \in 1..Len(data)}

\* the raw readings of a date, in the order of the list
ReadingsOf(date) == SelectSeq(data, LAMBDA item : DateOf(item["dt"]) = date)

Smaller(a, b) == IF a <= b THEN a ELSE b

----------------------------------------------------------------------------
(* C16 *)

\* C16: for every raw reading list and every integer day count, the list
\* _parse_forecast returns is no longer than the day count and no longer
\* than the number of distinct calendar dates of the readings.
C16_LengthWithinDays ==
    ForecastDone =>
        /\ Len(Entries) <= day_count
        /\ Len(Entries) <= Cardinality(InputDates)

\* the second half alone: never more entries than dates
C16_LengthWithinDates ==
    ForecastDone => Len(Entries) <= Cardinality(InputDates)

----------------------------------------------------------------------------
(* C17 *)

\* C17: for a day count n >= 1 the entries are in strictly ascending date
\* order, they are min(n, number of distinct dates) many, and their dates
\* are the earliest dates of the readings, in whatever order the readings
\* come.
C17_EarliestDatesAscending ==
    (ForecastDone /\ day_count >= 1) =>
        /\ \A i \in 1..(Len(Entries) - 1) : Entries[i].date < Entries[i + 1].date
        /\ Len(Entries) = Smaller(day_count, Cardinality(InputDates))
        /\ EntryDates \subseteq InputDates
        /\ \A d \in EntryDates : \A e \in InputDates \ EntryDates : d < e

\* days=3 over five dates that come as 3, 1, 4, 0, 2: the dates 0, 1, 2
C17_Witness ==
    /\ ForecastDone
    /\ data = FiveDates
    /\ [i \in 1..Len(data) |-> DateOf(data[i]["dt"])] = <<3, 1, 4, 0, 2>>
    /\ day_count = 3
    /\ [i \in 1..Len(Entries) |-> Entries[i].date] = <<0, 1, 2>>

----------------------------------------------------------------------------
(* C18 *)

\* item.get('rain', {}).get('3h', 0) of the raw readings, and the same for snow
Amounts(raw, kind) ==
    [i \in 1..Len(raw) |-> Get(Get(raw[i], kind, EmptyDict), "3h", 0)]

RECURSIVE SumOf(_)
SumOf(seq) == IF seq = <<>> THEN 0 ELSE seq[1] + SumOf(Tail(seq))

\* the entries are of distinct dates that have a reading, and of every such
\* date when the day count allows
OneEntryPerDate ==
    /\ EntryDates \subseteq InputDates
    /\ \A i, j \in 1..Len(Entries) : Entries[i].date = Entries[j].date => i = j
    /\ day_count >= Cardinality(InputDates) => EntryDates = InputDates

\* minimum, maximum, mean humidity, maximum, sum and sum over the raw
\* readings of the entry's date
AggregatesOf(entry) ==
    LET raw == ReadingsOf(entry.date)
        n == Len(raw)
    IN  /\ n >= 1
        /\ entry.temp_min = MinOf(Column(raw, "temp"))
        /\ entry.temp_max = MaxOf(Column(raw, "temp"))
        /\ entry.humidity_avg.num * n = entry.humidity_avg.den * SumOf(Column(raw, "humidity"))
        /\ entry.wind_speed_max = KmH(MaxOf(Column(raw, "speed")))
        /\ entry.total_rain = SumOf(Amounts(raw, "rain"))
        /\ entry.total_snow = SumOf(Amounts(raw, "snow"))
        /\ n = 1 => entry.temp_min = entry.temp_avg /\ entry.temp_avg = entry.temp_max

\* C18 without the order of temp_min, temp_avg and temp_max
ForecastAggregates ==
    ForecastDone =>
        /\ OneEntryPerDate
        /\ \A i \in 1..Len(Entries) : AggregatesOf(Entries[i])

\* C18: one entry for each date that has a reading (within the day count)
\* and for no other date; each entry's temp_min, temp_max, humidity_avg,
\* wind_speed_max, total_rain and total_snow are the minimum, maximum, mean,
\* maximum, sum and sum over that date's readings, and its temp_avg, their
\* mean temperature, is between temp_min and temp_max; on a date with one
\* reading the three are equal.
C18_DailyAggregates ==
    ForecastDone =>
        /\ OneEntryPerDate
        /\ \A i \in 1..Len(Entries) :
              /\ AggregatesOf(Entries[i])
              /\ Entries[i].temp_min <= Entries[i].temp_avg
              /\ Entries[i].temp_avg <= Entries[i].temp_max

\* three equal temperatures on one date, and an average that is not theirs
C18_EqualReadings ==
    /\ ForecastDone
    /\ data = SteadyDay
    /\ Len(Entries) = 1
    /\ Len(Entries[1].details) = 3
    /\ Entries[1].temp_min = Entries[1].temp_max
    /\ Entries[1].temp_avg < Entries[1].temp_min

----------------------------------------------------------------------------
(* C19 *)

\* C19: the description and the icon of an entry are those of the reading
\* at the zero-based index floor(n / 2) of its date's n readings, taken in
\* the order of the list; the eight readings over two dates give exactly two
\* entries, each with the description of its date's third reading.
C19_MiddleReading ==
    ForecastDone =>
        /\ \A i \in 1..Len(Entries) :
              LET raw == ReadingsOf(Entries[i].date)
                  n == Len(raw)
              IN  /\ n >= 1
                  /\ Entries[i].description = raw[n \div 2 + 1]["description"]
                  /\ Entries[i].icon = raw[n \div 2 + 1]["icon"]
        /\ (data = EightReadings /\ day_count >= 2) =>
              /\ Len(Entries) = 2
              /\ Entries[1].description = data[3]["description"]
              /\ Entries[2].description = data[7]["description"]

\* the eight readings, days=5: two entries, the third reading of each date
C19_Witness ==
    /\ ForecastDone
    /\ data = EightReadings
    /\ day_count = 5
    /\ Len(Entries) = 2
    /\ Len(Entries[1].details) = 4 /\ Len(Entries[2].details) = 4
    /\ Entries[1].description = "scattered clouds" /\ Entries[1].icon = "03d"
    /\ Entries[2].description = "light rain" /\ Entries[2].icon = "10d"

\* two readings of one date, the later one first in the list: the entry has
\* the description of the second in the list, which is the earlier one
C19_InputOrder ==
    /\ ForecastDone
    /\ Len(data) = 2 /\ Len(Entries) = 1
    /\ data[1]["dt"] > data[2]["dt"]
    /\ Entries[1].description = data[2]["description"]
    /\ data[1]["description"] # data[2]["description"]

----------------------------------------------------------------------------
(* C28 *)

\* C28: with the thresholds of config.py, an agriculture bundle whose
\* suitable_activities has 'Pesticide/fertilizer application' has no High
\* Wind alert and no postpone-spraying task, and its first task is 'Good
\* conditions for spraying operations'.
C28_SprayingConsistent ==
    (AgDone /\ Contains(Bundle.suitable_activities, "Pesticide/fertilizer application")) =>
        /\ ag_thresholds = AGRICULTURE_THRESHOLDS
        /\ ~HasAlert("High Wind Alert")
        /\ ~HasTask(PostponeSprayingTask)
        /\ Len(Bundle.tasks) >= 1
        /\ Bundle.tasks[1] = GoodSprayingTask

\* wind just under the limit of both tests: the application is suitable and
\* the spraying task is the first
C28_Witness ==
    /\ AgDone
    /\ WindSpeed = 199
    /\ Contains(Bundle.suitable_activities, "Pesticide/fertilizer application")
    /\ Bundle.tasks[1] = GoodSprayingTask

----------------------------------------------------------------------------
(* C29 *)

HeatTimes == "Visit outdoor attractions early morning or late evening to avoid heat"
MiddayTimes == "Midday (11 AM - 3 PM) will be warmest for outdoor activities"

\* C29: with the thresholds of config.py, a travel bundle whose best_times
\* has the early-morning/late-evening suggestion starts its packing list
\* with the hot list, one whose best_times has the midday suggestion starts
\* it with the cold list, and a packing list that starts with the default
\* list comes with neither suggestion.
C29_TimesAgreeWithPacking ==
    TravelDone =>
        /\ travel_thresholds = TRAVEL_THRESHOLDS
        /\ Contains(Bundle.best_times, HeatTimes) =>
              StartsWith(Bundle.packing_list,
                         <<"Sunscreen", "Hat", "Sunglasses", "Light clothing", "Water bottle">>)
        /\ Contains(Bundle.best_times, MiddayTimes) =>
              StartsWith(Bundle.packing_list,
                         <<"Warm jacket", "Gloves", "Scarf", "Thermal wear">>)
        /\ StartsWith(Bundle.packing_list, <<"Light jacket", "Comfortable clothing">>) =>
              /\ ~Contains(Bundle.best_times, HeatTimes)
              /\ ~Contains(Bundle.best_times, MiddayTimes)

\* 30.1 degrees: the heat suggestion and the hot list
C29_Witness ==
    /\ TravelDone
    /\ Temperature = 301
    /\ Contains(Bundle.best_times, HeatTimes)
    /\ StartsWith(Bundle.packing_list,
                  <<"Sunscreen", "Hat", "Sunglasses", "Light clothing", "Water bottle">>)

----------------------------------------------------------------------------
(* The shared engine: evaluations by threads, rule block by rule block      *)
(*                                                                         *)
(* app.py builds one RecommendationEngine at import and every request      *)
(* thread calls it.  An evaluation is taken in the steps of its source:    *)
(* the entry (the empty lists, the reads of the snapshot), one step for    *)
(* each rule block in the order of the code, and the return.  The lists    *)
(* and the values read at the entry are locals of the call: its frame.     *)
(* Between two steps of one thread the other thread may take any number    *)
(* of steps.  A thread calls again after its call has ended, as long as    *)
(* the engine has been asked for fewer than MaxCalls evaluations.          *)

MaxCalls == 3

\* the frame a thread's call works on: its own
Frame_OnInstance(t) == "t1"

Frame(t) == t

\* the lists at the entry of a call, old being what the frame held before
StartLists_Kept(old) == old

StartLists(old) == NoLists

\* forecast[:3] builds a new list: the caller's list after the rain block;
\* here as if the code had cut the list itself (del forecast[3:])
ForecastAfterSlice_InPlace(fc) == IF fc.given THEN List(Take(fc.days, 3)) ELSE fc

ForecastAfterSlice(fc) == fc

\* the agriculture entry reads humidity with a default
AgReads_HumidityDefault(wd) ==
    IF {"temperature", "wind_speed"} \subseteq DOMAIN wd
    THEN [status |-> "ok",
          temp |-> wd["temperature"],
          wind_speed |-> wd["wind_speed"],
          humidity |-> Get(wd, "humidity", 0),
          rain |-> Get(wd, "rain_1h", 0) + Get(wd, "rain_3h", 0),
          description |-> <<>>]
    ELSE Raised("KeyError")

\* temp, wind_speed, humidity and rain as the agriculture entry reads them;
\* weather_data[key] raises KeyError for a key that is missing
AgReads(wd) ==
    IF {"temperature", "wind_speed", "humidity"} \subseteq DOMAIN wd
    THEN [status |-> "ok",
          temp |-> wd["temperature"],
          wind_speed |-> wd["wind_speed"],
          humidity |-> wd["humidity"],
          rain |-> Get(wd, "rain_1h", 0) + Get(wd, "rain_3h", 0),
          description |-> <<>>]
    ELSE Raised("KeyError")

\* temp, wind_speed, rain and description as the travel entry reads them
TravelReads(wd) ==
    IF {"temperature", "wind_speed"} \subseteq DOMAIN wd
    THEN [status |-> "ok",
          temp |-> wd["temperature"],
          wind_speed |-> wd["wind_speed"],
          humidity |-> 0,
          rain |-> Get(wd, "rain_1h", 0) + Get(wd, "rain_3h", 0),
          description |-> Lower(Get(wd, "main", <<>>))]
    ELSE Raised("KeyError")

\* the frame after the entry of a call
EnteredFrame(old, reads) ==
    IF reads.status = "ok"
    THEN [lists |-> StartLists(old.lists),
          temp |-> reads.temp, wind_speed |-> reads.wind_speed,
          humidity |-> reads.humidity, rain |-> reads.rain,
          description |-> reads.description,
          crop_advice |-> <<>>, travel_outlook |-> "good"]
    ELSE [old EXCEPT !.lists = StartLists(old.lists)]

\* the lists after a rule block has appended out to them
Appended(lists, out) ==
    [recommendations |-> lists.recommendations \o out.recommendations,
     alerts |-> lists.alerts \o out.alerts,
     tasks |-> lists.tasks \o (IF "tasks" \in DOMAIN out THEN out.tasks ELSE <<>>),
     packing_list |-> lists.packing_list
                      \o (IF "packing_list" \in DOMAIN out THEN out.packing_list ELSE <<>>)]

\* the thread t moves on to the step next, its frame's lists extended by out
Step(t, next, out) ==
    /\ threads' = [threads EXCEPT ![t].pc = next]
    /\ frames' = [frames EXCEPT ![Frame(t)].lists = Appended(@, out)]
    /\ started' = started

----------------------------------------------------------------------------
(* The shared engine: the calls the threads make *)

\* the dict {key: value}
Field(key, value) == [k \in {key} |-> value]

\* the dict d without the key
Dropped(d, key) == [k \in (DOMAIN d) \ {key} |-> d[k]]

\* a dry, calm day: no rule of the agriculture evaluator but the spraying
\* task fires
DrySnapshot ==
    Merge(Field("temperature", 200), Merge(Field("wind_speed", 100), Field("humidity", 50)))

\* frost, wind, light rain and high humidity at once
RoughSnapshot ==
    Merge(Merge(Field("temperature", 10), Field("wind_speed", 250)),
          Merge(Field("humidity", 85), Field("rain_1h", 5)))

\* a clear day with sunrise and sunset
ClearSnapshot ==
    Merge(Merge(Field("temperature", 200), Field("wind_speed", 100)),
          Merge(Field("main", <<"C", "l", "e", "a", "r">>),
                Merge(Field("sunrise", [hour |-> 6, minute |-> 5]),
                      Field("sunset", [hour |-> 18, minute |-> 30]))))

\* heat, rain, wind and a storm at once
StormSnapshot ==
    Merge(Merge(Field("temperature", 301), Field("wind_speed", 600)),
          Merge(Field("rain_3h", 95),
                Field("main", <<"T", "h", "u", "n", "d", "e", "r", "s", "t", "o", "r", "m">>)))

\* the two required fields of the travel evaluator and nothing else
BareSnapshot == Merge(Field("temperature", 95), Field("wind_speed", 100))

\* forecasts of no, one, two, three and four days; of the three-day ones two
\* have a fourth day added, and two have the first-three-day rain 5.0
EngineForecasts ==
    {None, List(<<>>), List(<<Wet>>),
     List(<<DryCool, DryCool, DryCool>>), List(<<DryCool, DryCool, DryCool, Wet>>),
     List(<<Showers, Showers>>), List(<<Showers, Showers, DryCool>>),
     List(<<Showers, Showers, Showers>>), List(<<Showers, Showers, Showers, Gale>>),
     List(<<Gale>>)}

EngineCall(kind, wd, fc, now_month) ==
    [call |-> kind, weather_data |-> wd, forecast |-> fc, month |-> now_month]

\* every snapshot with every forecast in January; some of them in April, July
\* and October; and snapshots that lack a field the evaluator subscripts
EngineCalls ==
    {EngineCall("agriculture", DrySnapshot, fc, 1) : fc \in EngineForecasts}
    \cup {EngineCall("agriculture", RoughSnapshot, fc, 1) :
            fc \in {None, List(<<>>), List(<<Wet>>), List(<<Showers, Showers, Showers>>)}}
    \cup {EngineCall("agriculture", DrySnapshot, fc, m) :
            fc \in {None, List(<<DryCool, DryCool, DryCool>>)}, m \in {4, 7, 10}}
    \cup {EngineCall("agriculture", RoughSnapshot, None, 7)}
    \cup {EngineCall("agriculture", Dropped(DrySnapshot, key), None, 1) :
            key \in {"temperature", "wind_speed", "humidity"}}
    \cup {EngineCall("travel", wd, fc, 1) :
            wd \in {ClearSnapshot, StormSnapshot},
            fc \in {None, List(<<>>), List(<<DryCool>>), List(<<Gale>>),
                    List(<<Showers, Showers, Showers>>)}}
    \cup {EngineCall("travel", wd, None, 7) : wd \in {ClearSnapshot, BareSnapshot}}
    \cup {EngineCall("travel", BareSnapshot, None, 1)}
    \cup {EngineCall("travel", Dropped(BareSnapshot, key), None, 1) :
            key \in {"temperature", "wind_speed"}}

----------------------------------------------------------------------------
(* The shared engine: the steps of an evaluation *)

NoOut == [recommendations |-> <<>>, alerts |-> <<>>]

\* the entry of get_agriculture_recommendations or get_travel_recommendations:
\* the lists are created empty and the snapshot is read; a missing required
\* key ends the call with KeyError
Enter(t) ==
    /\ threads[t].pc \in {"idle", "done"}
    /\ started < MaxCalls
    /\ \E c \in EngineCalls :
          LET reads == IF c.call = "agriculture" THEN AgReads(c.weather_data)
                       ELSE TravelReads(c.weather_data)
          IN  /\ threads' =
                    [threads EXCEPT ![t] =
                        [pc |-> IF reads.status # "ok" THEN "done"
                                ELSE IF c.call = "agriculture" THEN "ag_wind"
                                ELSE "travel_temperature",
                         call |-> c.call,
                         args |-> [weather_data |-> c.weather_data, forecast |-> c.forecast],
                         weather_data |-> c.weather_data,
                         forecast |-> c.forecast,
                         month |-> c.month,
                         result |-> IF reads.status # "ok" THEN reads ELSE NoResult]]
              /\ frames' = [frames EXCEPT ![Frame(t)] = EnteredFrame(@, reads)]
    /\ started' = started + 1
    /\ UNCHANGED <<ag_thresholds, travel_thresholds, call, weather_data, forecast, month,
                   pc, result, data, day_count, request>>

\* the rule blocks leave everything but the thread and its frame alone
BlockFrame ==
    UNCHANGED <<ag_thresholds, travel_thresholds, call, weather_data, forecast, month,
                pc, result, data, day_count, request>>

\* # Wind-related recommendations
AgWind(t) ==
    /\ threads[t].pc = "ag_wind"
    /\ Step(t, "ag_temperature", AgWindRule(ag_thresholds, frames[Frame(t)].wind_speed))
    /\ BlockFrame

\* # Temperature-related recommendations
AgTemperature(t) ==
    /\ threads[t].pc = "ag_temperature"
    /\ Step(t, "ag_rain", AgTemperatureRule(ag_thresholds, frames[Frame(t)].temp))
    /\ BlockFrame

\* # Rainfall recommendations
AgRain(t) ==
    /\ threads[t].pc = "ag_rain"
    /\ threads' = [threads EXCEPT ![t].pc = "ag_humidity",
                                  ![t].forecast = ForecastAfterSlice(@)]
    /\ frames' = [frames EXCEPT ![Frame(t)].lists =
                      Appended(@, AgRainRule(ag_thresholds, frames[Frame(t)].rain,
                                             threads[t].forecast))]
    /\ started' = started
    /\ BlockFrame

\* # Humidity-related recommendations
AgHumidity(t) ==
    /\ threads[t].pc = "ag_humidity"
    /\ Step(t, "ag_season", AgHumidityRule(ag_thresholds, frames[Frame(t)].humidity))
    /\ BlockFrame

\* # Seasonal crop recommendations
AgSeason(t) ==
    /\ threads[t].pc = "ag_season"
    /\ LET crop_advice ==
               _get_crop_advice(_get_season(threads[t].month), threads[t].weather_data)
       IN  /\ threads' = [threads EXCEPT ![t].pc = "ag_return"]
           /\ frames' = [frames EXCEPT
                  ![Frame(t)].lists =
                      Appended(@, [recommendations |-> crop_advice, alerts |-> <<>>]),
                  ![Frame(t)].crop_advice = crop_advice]
    /\ started' = started
    /\ BlockFrame

\* the return of get_agriculture_recommendations
AgReturn(t) ==
    /\ threads[t].pc = "ag_return"
    /\ LET frame == frames[Frame(t)]
       IN  threads' = [threads EXCEPT
               ![t].pc = "done",
               ![t].result =
                   Returned([alerts |-> frame.lists.alerts,
                             recommendations |-> frame.lists.recommendations,
                             tasks |-> frame.lists.tasks,
                             suitable_activities |->
                                 _get_suitable_farm_activities(threads[t].weather_data),
                             crop_advice |-> frame.crop_advice])]
    /\ UNCHANGED <<frames, started>>
    /\ BlockFrame

\* # Temperature-based packing
TravelTemperature(t) ==
    /\ threads[t].pc = "travel_temperature"
    /\ Step(t, "travel_rain", TravelTemperatureRule(travel_thresholds, frames[Frame(t)].temp))
    /\ BlockFrame

\* # Rain recommendations
TravelRain(t) ==
    /\ threads[t].pc = "travel_rain"
    /\ Step(t, "travel_wind",
            TravelRainRule(travel_thresholds, frames[Frame(t)].rain,
                           frames[Frame(t)].description))
    /\ BlockFrame

\* # Wind warnings
TravelWind(t) ==
    /\ threads[t].pc = "travel_wind"
    /\ Step(t, "travel_condition",
            TravelWindRule(travel_thresholds, frames[Frame(t)].wind_speed))
    /\ BlockFrame

\* # Weather condition recommendations
TravelCondition(t) ==
    /\ threads[t].pc = "travel_condition"
    /\ Step(t, "travel_forecast", TravelConditionRule(frames[Frame(t)].description))
    /\ BlockFrame

\* # Forecast-based recommendations
TravelForecast(t) ==
    /\ threads[t].pc = "travel_forecast"
    /\ LET fc == threads[t].forecast
           forecast_summary == _analyze_forecast_for_travel(fc)
       IN  /\ threads' = [threads EXCEPT ![t].pc = "travel_return"]
           /\ frames' = [frames EXCEPT
                  ![Frame(t)].lists =
                      Appended(@, IF Truthy(fc)
                                  THEN [recommendations |-> <<forecast_summary.summary>>,
                                        alerts |-> <<>>]
                                  ELSE NoOut),
                  ![Frame(t)].travel_outlook =
                      IF Truthy(fc) THEN forecast_summary.outlook ELSE "good"]
    /\ started' = started
    /\ BlockFrame

\* the return of get_travel_recommendations
TravelReturn(t) ==
    /\ threads[t].pc = "travel_return"
    /\ LET frame == frames[Frame(t)]
       IN  threads' = [threads EXCEPT
               ![t].pc = "done",
               ![t].result =
                   Returned([alerts |-> frame.lists.alerts,
                             recommendations |-> frame.lists.recommendations,
                             packing_list |-> frame.lists.packing_list,
                             travel_outlook |-> frame.travel_outlook,
                             best_times |->
                                 _get_best_travel_times(threads[t].weather_data,
                                                        threads[t].forecast)])]
    /\ UNCHANGED <<frames, started>>
    /\ BlockFrame

\* the engine is constructed; no thread has called it
EngineInit ==
    /\ ag_thresholds = AGRICULTURE_THRESHOLDS
    /\ travel_thresholds = TRAVEL_THRESHOLDS
    /\ call = "none"
    /\ weather_data = EmptyDict
    /\ forecast = None
    /\ month = 1
    /\ pc = "start"
    /\ result = NoResult
    /\ data = <<>>
    /\ day_count = 0
    /\ NoThreads
    /\ request = NoRequest

EngineNext ==
    \E t \in Threads :
        \/ Enter(t)
        \/ AgWind(t) \/ AgTemperature(t) \/ AgRain(t) \/ AgHumidity(t)
        \/ AgSeason(t) \/ AgReturn(t)
        \/ TravelTemperature(t) \/ TravelRain(t) \/ TravelWind(t) \/ TravelCondition(t)
        \/ TravelForecast(t) \/ TravelReturn(t)

EngineSpec == EngineInit /\ [][EngineNext]_vars

----------------------------------------------------------------------------
(* The shared engine: what the properties speak about *)

Done(t) == threads[t].pc = "done"
DoneCall(t, kind) ==
    Done(t) /\ threads[t].call = kind /\ threads[t].result.status = "returned"

\* the thread's call, as the caller made it
Snapshot(t) == threads[t].args.weather_data
GivenForecast(t) == threads[t].args.forecast
BundleOf(t) == threads[t].result.bundle

\* what a newly constructed engine returns for the thread's call
Alone(t) ==
    IF threads[t].call = "agriculture"
    THEN get_agriculture_recommendations(AGRICULTURE_THRESHOLDS, Snapshot(t),
                                         GivenForecast(t), threads[t].month)
    ELSE get_travel_recommendations(TRAVEL_THRESHOLDS, Snapshot(t), GivenForecast(t))

----------------------------------------------------------------------------
(* C21 *)

\* C21: two evaluations by the same evaluator with the same snapshot, the
\* same forecast and the same calendar month (and the thresholds of the one
\* engine) end with identical results: the same lists with the same elements
\* in the same order.
C21_Deterministic ==
    \A t, u \in Threads :
        (/\ Done(t) /\ Done(u)
         /\ threads[t].call = threads[u].call
         /\ threads[t].args = threads[u].args
         /\ threads[t].month = threads[u].month)
            => threads[t].result = threads[u].result

\* the two threads have evaluated the rough snapshot, three calls in all on
\* the engine, and hold the same bundle with its three alerts
C21_Witness ==
    /\ started = MaxCalls
    /\ DoneCall("t1", "agriculture") /\ DoneCall("t2", "agriculture")
    /\ Snapshot("t1") = RoughSnapshot /\ Snapshot("t2") = RoughSnapshot
    /\ GivenForecast("t1") = GivenForecast("t2")
    /\ threads["t1"].month = threads["t2"].month
    /\ Len(BundleOf("t1").alerts) = 3
    /\ BundleOf("t1") = BundleOf("t2")

----------------------------------------------------------------------------
(* C22 *)

\* C22: at every point of every sequence of evaluations on the one engine the
\* two threshold tables are those of config.py and the snapshot and the
\* forecast of a call are as the caller passed them; the result of every
\* call, whatever calls went before it, is the result a newly constructed
\* engine gives for the same arguments.
C22_NoStateKept ==
    /\ ag_thresholds = AGRICULTURE_THRESHOLDS
    /\ travel_thresholds = TRAVEL_THRESHOLDS
    /\ \A t \in Threads :
          /\ threads[t].weather_data = Snapshot(t)
          /\ threads[t].forecast = GivenForecast(t)
          /\ Done(t) => threads[t].result = Alone(t)

\* the third call on the engine, with a forecast of four days, has ended
C22_Witness ==
    /\ started = MaxCalls
    /\ DoneCall("t1", "agriculture") /\ Done("t2")
    /\ Len(GivenForecast("t1").days) = 4
    /\ threads["t1"].forecast = GivenForecast("t1")
    /\ threads["t1"].result = Alone("t1")
    /\ threads["t2"].call = "travel"

\* _parse_forecast leaves data['list'] as it was
C22_ParseLeavesData == [][data' = data]_vars

----------------------------------------------------------------------------
(* C23 *)

\* how many rule blocks of its call the thread has run
BlocksRun(t) ==
    LET at == threads[t].pc
    IN  IF at \in {"ag_wind", "travel_temperature"} THEN 0
        ELSE IF at \in {"ag_temperature", "travel_rain"} THEN 1
        ELSE IF at \in {"ag_rain", "travel_wind"} THEN 2
        ELSE IF at \in {"ag_humidity", "travel_condition"} THEN 3
        ELSE IF at \in {"ag_season", "travel_forecast"} THEN 4
        ELSE IF threads[t].result.status = "raised" THEN 0
        ELSE 5

\* what the rule blocks of the thread's call append when the call runs alone,
\* block by block in the order of the code
BlocksAlone(t) ==
    LET wd == Snapshot(t)
        fc == GivenForecast(t)
        rain == Get(wd, "rain_1h", 0) + Get(wd, "rain_3h", 0)
    IN  IF threads[t].call = "agriculture"
        THEN <<AgWindRule(AGRICULTURE_THRESHOLDS, wd["wind_speed"]),
               AgTemperatureRule(AGRICULTURE_THRESHOLDS, wd["temperature"]),
               AgRainRule(AGRICULTURE_THRESHOLDS, rain, fc),
               AgHumidityRule(AGRICULTURE_THRESHOLDS, wd["humidity"]),
               [recommendations |-> crop_calendar[SeasonOfMonth(threads[t].month)],
                alerts |-> <<>>]>>
        ELSE <<TravelTemperatureRule(TRAVEL_THRESHOLDS, wd["temperature"]),
               TravelRainRule(TRAVEL_THRESHOLDS, rain, Lower(Get(wd, "main", <<>>))),
               TravelWindRule(TRAVEL_THRESHOLDS, wd["wind_speed"]),
               TravelConditionRule(Lower(Get(wd, "main", <<>>))),
               IF Truthy(fc)
               THEN [recommendations |-> <<_analyze_forecast_for_travel(fc).summary>>,
                     alerts |-> <<>>]
               ELSE NoOut>>

RECURSIVE AppendedAll(_, _, _)
\* the lists after the first n blocks of outs
AppendedAll(lists, outs, n) ==
    IF n = 0 THEN lists ELSE Appended(AppendedAll(lists, outs, n - 1), outs[n])

\* the lists of the thread's call at the step it has reached, when the call
\* runs alone
ListsAlone(t) ==
    IF BlocksRun(t) = 0 THEN NoLists
    ELSE AppendedAll(NoLists, BlocksAlone(t), BlocksRun(t))

\* C23: under every interleaving of the steps of the threads on the one
\* engine, the lists of a running evaluation hold at every step exactly what
\* its own rule blocks have appended so far, nothing of another call, and
\* the evaluation ends with the result it has when it runs alone.
C23_Isolated ==
    \A t \in Threads :
        threads[t].pc # "idle" =>
            /\ frames[t].lists = ListsAlone(t)
            /\ Done(t) => threads[t].result = Alone(t)

\* both threads in the middle of an evaluation, each with alerts of its own
C23_Witness ==
    /\ threads["t1"].pc = "ag_humidity" /\ threads["t2"].pc = "travel_condition"
    /\ Snapshot("t1") = RoughSnapshot /\ Snapshot("t2") = StormSnapshot
    /\ Titles(frames["t1"].lists.alerts) = <<"High Wind Alert", "Frost Warning">>
    /\ Titles(frames["t2"].lists.alerts) = <<"Rain Expected", "Strong Winds">>

----------------------------------------------------------------------------
(* C24 *)

\* the keys the evaluator subscripts
RequiredFields(kind) ==
    IF kind = "agriculture" THEN {"temperature", "wind_speed", "humidity"}
    ELSE {"temperature", "wind_speed"}

\* C24: a call with a snapshot that lacks temperature or wind_speed, or, for
\* the agriculture evaluator, humidity, ends in an error and returns no
\* bundle; a snapshot that has them is evaluated to a bundle, whether or not
\* it has rain_1h, rain_3h, main, sunrise or sunset.
C24_RequiredFields ==
    \A t \in Threads :
        Done(t) =>
            IF RequiredFields(threads[t].call) \subseteq DOMAIN Snapshot(t)
            THEN threads[t].result.status = "returned"
            ELSE /\ threads[t].result.status = "raised"
                 /\ "bundle" \notin DOMAIN threads[t].result
                 /\ frames[t].lists = NoLists

\* an agriculture call without humidity has ended in KeyError, and a travel
\* call with the two required fields only has returned
C24_Witness ==
    /\ Done("t1") /\ threads["t1"].call = "agriculture"
    /\ DOMAIN Snapshot("t1") = {"temperature", "wind_speed"}
    /\ threads["t1"].result = Raised("KeyError")
    /\ DoneCall("t2", "travel")
    /\ DOMAIN Snapshot("t2") = {"temperature", "wind_speed"}
    /\ BundleOf("t2").best_times = <<MiddayTimes>>

----------------------------------------------------------------------------
(* C25 *)

\* the sequence without its last n elements
ButLast(seq, n) ==
    IF Len(seq) <= n THEN <<>> ELSE SubSeq(seq, 1, Len(seq) - n)

\* the two threads have made the same call with the same arguments
SameCall(t, u) ==
    /\ threads[t].call = threads[u].call
    /\ Snapshot(t) = Snapshot(u)
    /\ GivenForecast(t) = GivenForecast(u)

\* C25: two agriculture evaluations in the same month return the same
\* crop_advice whatever their snapshots and forecasts; the same call in two
\* different months returns the same alerts, tasks, suitable_activities and
\* recommendations before the three trailing crop-advice strings for
\* agriculture, and the same whole bundle for travel.
C25_MonthAndWeatherDisjoint ==
    \A t, u \in Threads :
        /\ (DoneCall(t, "agriculture") /\ DoneCall(u, "agriculture")
                /\ threads[t].month = threads[u].month)
               => BundleOf(t).crop_advice = BundleOf(u).crop_advice
        /\ (DoneCall(t, "agriculture") /\ DoneCall(u, "agriculture")
                /\ SameCall(t, u))
               => /\ BundleOf(t).alerts = BundleOf(u).alerts
                  /\ BundleOf(t).tasks = BundleOf(u).tasks
                  /\ BundleOf(t).suitable_activities = BundleOf(u).suitable_activities
                  /\ ButLast(BundleOf(t).recommendations, 3)
                         = ButLast(BundleOf(u).recommendations, 3)
        /\ (DoneCall(t, "travel") /\ DoneCall(u, "travel") /\ SameCall(t, u))
               => BundleOf(t) = BundleOf(u)

\* the same agriculture call in January and in July: the crop advice
\* differs and the rest is the same
C25_Witness ==
    /\ DoneCall("t1", "agriculture") /\ DoneCall("t2", "agriculture")
    /\ SameCall("t1", "t2")
    /\ threads["t1"].month = 1 /\ threads["t2"].month = 7
    /\ BundleOf("t1").crop_advice # BundleOf("t2").crop_advice
    /\ BundleOf("t1").recommendations # BundleOf("t2").recommendations
    /\ Len(BundleOf("t1").recommendations) > 3

\* two agriculture calls of January with different snapshots, and the same
\* crop advice
C25_SameMonth ==
    /\ DoneCall("t1", "agriculture") /\ DoneCall("t2", "agriculture")
    /\ Snapshot("t1") = DrySnapshot /\ Snapshot("t2") = RoughSnapshot
    /\ threads["t1"].month = 1 /\ threads["t2"].month = 1
    /\ BundleOf("t1").alerts # BundleOf("t2").alerts

\* the same travel call in January and in July
C25_TravelMonths ==
    /\ DoneCall("t1", "travel") /\ DoneCall("t2", "travel")
    /\ SameCall("t1", "t2")
    /\ threads["t1"].month = 1 /\ threads["t2"].month = 7

----------------------------------------------------------------------------
(* C26 *)

\* the recommendations of a travel bundle without the summary of the forecast
BeforeSummary(t) ==
    IF Truthy(GivenForecast(t)) THEN ButLast(BundleOf(t).recommendations, 1)
    ELSE BundleOf(t).recommendations

\* C26: two travel evaluations of the same snapshot with any two forecasts,
\* none included, return the same alerts, packing_list and best_times, and
\* the same recommendations but for the final forecast-summary entry, which
\* is there exactly when the forecast is a non-empty list.
C26_ForecastOnlyOutlook ==
    \A t, u \in Threads :
        (DoneCall(t, "travel") /\ DoneCall(u, "travel")
            /\ Snapshot(t) = Snapshot(u))
        => /\ BundleOf(t).alerts = BundleOf(u).alerts
           /\ BundleOf(t).packing_list = BundleOf(u).packing_list
           /\ BundleOf(t).best_times = BundleOf(u).best_times
           /\ BeforeSummary(t) = BeforeSummary(u)
           /\ Len(BundleOf(t).recommendations)
                  = Len(BeforeSummary(t)) + (IF Truthy(GivenForecast(t)) THEN 1 ELSE 0)

\* the stormy snapshot evaluated without a forecast and with a forecast of a
\* gale: the outlook and the summary differ
C26_Witness ==
    /\ DoneCall("t1", "travel") /\ DoneCall("t2", "travel")
    /\ Snapshot("t1") = StormSnapshot /\ Snapshot("t2") = StormSnapshot
    /\ GivenForecast("t1") = None /\ Truthy(GivenForecast("t2"))
    /\ BundleOf("t1").travel_outlook # BundleOf("t2").travel_outlook
    /\ Len(BundleOf("t2").recommendations) = Len(BundleOf("t1").recommendations) + 1
    /\ Len(BundleOf("t1").alerts) > 0

----------------------------------------------------------------------------
(* C27 *)

\* rain_1h + rain_3h of the snapshot of the thread's call
RainOf(t) == Get(Snapshot(t), "rain_1h", 0) + Get(Snapshot(t), "rain_3h", 0)

\* the two threads have evaluated the same snapshot in the same month with
\* the agriculture evaluator
SameAgricultureSnapshot(t, u) ==
    /\ DoneCall(t, "agriculture") /\ DoneCall(u, "agriculture")
    /\ Snapshot(t) = Snapshot(u)
    /\ threads[t].month = threads[u].month

\* the forecast is a list, of any length
IsList(fc) == fc.given

\* C27: the forecast reaches the agriculture bundle only through the summed
\* total_rain of its first three entries, and only when rain_1h + rain_3h is
\* 0: two forecast lists with the same sum over their first three entries
\* give the same bundle, with rain > 0 every forecast and no forecast give
\* the same bundle, and a list of fewer than three entries is evaluated
\* without an error.
C27_OnlyThroughTotalRain ==
    \A t, u \in Threads :
        /\ (SameAgricultureSnapshot(t, u)
                /\ IsList(GivenForecast(t)) /\ IsList(GivenForecast(u))
                /\ UpcomingRain(GivenForecast(t)) = UpcomingRain(GivenForecast(u)))
               => BundleOf(t) = BundleOf(u)
        /\ (SameAgricultureSnapshot(t, u) /\ RainOf(t) > 0)
               => BundleOf(t) = BundleOf(u)
        /\ (DoneCall(t, "agriculture") /\ IsList(GivenForecast(t))
                /\ Len(GivenForecast(t).days) < 3)
               => threads[t].result.status = "returned"

\* the same, for the lists that have an entry
C27_NonEmptyLists ==
    \A t, u \in Threads :
        /\ (SameAgricultureSnapshot(t, u)
                /\ Truthy(GivenForecast(t)) /\ Truthy(GivenForecast(u))
                /\ UpcomingRain(GivenForecast(t)) = UpcomingRain(GivenForecast(u)))
               => BundleOf(t) = BundleOf(u)
        /\ (SameAgricultureSnapshot(t, u) /\ RainOf(t) > 0)
               => BundleOf(t) = BundleOf(u)
        /\ (DoneCall(t, "agriculture") /\ IsList(GivenForecast(t))
                /\ Len(GivenForecast(t).days) < 3)
               => threads[t].result.status = "returned"

\* a dry snapshot evaluated with three showery days and with the same three
\* days and a gale after them: the same advisory of the same sum
C27_LaterDaysWitness ==
    /\ SameAgricultureSnapshot("t1", "t2") /\ RainOf("t1") = 0
    /\ Len(GivenForecast("t1").days) = 3 /\ Len(GivenForecast("t2").days) = 4
    /\ UpcomingRain(GivenForecast("t1")) > Fixed(5)
    /\ BundleOf("t1") = BundleOf("t2")
    /\ Len(BundleOf("t1").recommendations) = 4

\* a snapshot with rain evaluated without a forecast and with a wet one
C27_RainWitness ==
    /\ SameAgricultureSnapshot("t1", "t2") /\ RainOf("t1") > 0
    /\ GivenForecast("t1") = None
    /\ Truthy(GivenForecast("t2")) /\ UpcomingRain(GivenForecast("t2")) > Fixed(5)

\* a dry snapshot evaluated with an empty list and with three dry days: the
\* sums agree and the tasks do not
C27_EmptyListDiffers ==
    /\ SameAgricultureSnapshot("t1", "t2") /\ RainOf("t1") = 0
    /\ GivenForecast("t1") = List(<<>>)
    /\ GivenForecast("t2") = List(<<DryCool, DryCool, DryCool>>)
    /\ BundleOf("t1").tasks = <<"Good conditions for spraying operations">>
    /\ BundleOf("t2").tasks = <<"Good conditions for spraying operations",
                                "Regular irrigation recommended">>

----------------------------------------------------------------------------
(* The recommendation endpoints: the query of a request *)

DigitValue ==
    [c \in {"0", "1", "2", "3", "4", "5", "6", "7", "8", "9"} |->
        CASE c = "0" -> 0 [] c = "1" -> 1 [] c = "2" -> 2 [] c = "3" -> 3
          [] c = "4" -> 4 [] c = "5" -> 5 [] c = "6" -> 6 [] c = "7" -> 7
          [] c = "8" -> 8 [] c = "9" -> 9]

\* the text has nothing but digits (and may be empty)
AllDigits(text) == \A i \in 1..Len(text) : text[i] \in DOMAIN DigitValue

RECURSIVE Number(_)
\* the number written by the digits
Number(digits) ==
    IF digits = <<>> THEN 0
    ELSE 10 * Number(SubSeq(digits, 1, Len(digits) - 1)) + DigitValue[digits[Len(digits)]]

\* float(text) for a text of a sign, digits, a point and digits, in the
\* tenths of the model; ValueError (no value) for any other text
float(text) ==
    LET signed == text # <<>> /\ text[1] \in {"-", "+"}
        body == IF signed THEN Tail(text) ELSE text
        sign == IF signed /\ text[1] = "-" THEN -1 ELSE 1
        points == {i \in 1..Len(body) : body[i] = "."}
    IN  IF points = {}
        THEN IF body # <<>> /\ AllDigits(body)
             THEN Arg(sign * 10 * Number(body)) ELSE NoArg
        ELSE IF Cardinality(points) = 1
        THEN LET at == CHOOSE i \in points : TRUE
                 whole == SubSeq(body, 1, at - 1)
                 fraction == SubSeq(body, at + 1, Len(body))
             IN  IF AllDigits(whole) /\ AllDigits(fraction) /\ Len(whole) + Len(fraction) > 0
                 THEN Arg(sign * (10 * Number(whole)
                                    + (IF fraction = <<>> THEN 0 ELSE DigitValue[fraction[1]])))
                 ELSE NoArg
        ELSE NoArg

\* request.args.get(key, type=float): None when the parameter is not in the
\* query or is not the text of a float
ArgsGet(query, key) ==
    IF key \in DOMAIN query THEN float(query[key]) ELSE NoArg

\* lat is None and lon is None
MissingCoordinates_Both(lat, lon) == ~lat.given /\ ~lon.given

\* lat is None or lon is None
MissingCoordinates(lat, lon) == ~lat.given \/ ~lon.given

\* the texts a parameter of the query comes with
QueryTexts ==
    {<<"5", "1", ".", "5">>, <<"-", "0", ".", "1">>, <<"0">>, <<"a", "b", "c">>, <<>>}

\* the queries of the requests: each of lat and lon absent or one of the texts
Queries ==
    {Merge(lat, lon) :
        lat \in {EmptyDict} \cup {Field("lat", text) : text \in QueryTexts},
        lon \in {EmptyDict} \cup {Field("lon", text) : text \in QueryTexts}}

Endpoints == {"agriculture", "travel"}

----------------------------------------------------------------------------
(* The recommendation endpoints: the weather service and the replies *)

\* the provider answered with "temp": null: the snapshot has no temperature
\* to compare with a threshold (an entry of None in the code, no entry in
\* the model) and the evaluator raises on it
NullTemperature == Dropped(Merge(ClearSnapshot, Field("humidity", 50)), "temperature")

\* what weather_service.get_current_weather(lat, lon) returns or raises
WeatherOutcomes ==
    {Returned(Merge(ClearSnapshot, Field("humidity", 50))),
     Returned(Merge(StormSnapshot, Field("humidity", 90))),
     Returned(NullTemperature),
     Raised("Failed to fetch current weather")}

\* what weather_service.get_forecast(lat, lon, 5) returns or raises
ForecastOutcomes ==
    {Returned(List(<<>>)),
     Returned(List(<<DryCool, DryCool, DryCool>>)),
     Returned(List(<<Showers, Showers, Showers, Gale>>)),
     Raised("Failed to fetch forecast")}

\* the value a call returned
Value(outcome) == outcome.bundle

\* jsonify({'success': False, 'error': 'lat and lon parameters required'}), 400
BadRequest ==
    [status |-> 400, success |-> FALSE, error |-> "lat and lon parameters required"]

\* except Exception as e: jsonify({'success': False, 'error': str(e)}), 500
ServerError(error) == [status |-> 500, success |-> FALSE, error |-> error]

\* jsonify({'success': True, 'weather': ..., 'forecast': ..., 'recommendations': ...})
Success(weather, fc, recommendations) ==
    [status |-> 200, success |-> TRUE, weather |-> weather, forecast |-> fc,
     recommendations |-> recommendations]

\* the method of the engine the endpoint calls
EngineMethod(endpoint) ==
    IF endpoint = "agriculture" THEN "get_agriculture_recommendations"
    ELSE "get_travel_recommendations"

----------------------------------------------------------------------------
(* The recommendation endpoints: the steps of a request *)

\* everything but the request
EndpointFrame ==
    UNCHANGED <<ag_thresholds, travel_thresholds, call, weather_data, forecast, month,
                pc, result, data, day_count, threadVars>>

\* a request comes in: lat and lon are read from the query, and a request
\* without one of them is answered with 400
Receive ==
    /\ request.pc \in {"waiting", "responded"}
    /\ \E endpoint \in Endpoints, query \in Queries :
          LET lat == ArgsGet(query, "lat")
              lon == ArgsGet(query, "lon")
              read == [NoRequest EXCEPT !.endpoint = endpoint, !.query = query,
                                        !.lat = lat, !.lon = lon]
          IN  request' =
                  IF MissingCoordinates(lat, lon)
                  THEN [read EXCEPT !.pc = "responded", !.response = BadRequest]
                  ELSE [read EXCEPT !.pc = "get_current_weather"]
    /\ EndpointFrame

\* weather = weather_service.get_current_weather(lat, lon)
GetCurrentWeather ==
    /\ request.pc = "get_current_weather"
    /\ \E outcome \in WeatherOutcomes :
          request' =
              [request EXCEPT
                  !.calls = Append(@, "get_current_weather"),
                  !.weather = outcome,
                  !.pc = IF outcome.status = "returned" THEN "get_forecast" ELSE "responded",
                  !.response = IF outcome.status = "returned" THEN @
                               ELSE ServerError(outcome.error)]
    /\ EndpointFrame

\* forecast = weather_service.get_forecast(lat, lon, 5)
GetForecastOfFiveDays ==
    /\ request.pc = "get_forecast"
    /\ \E outcome \in ForecastOutcomes :
          request' =
              [request EXCEPT
                  !.calls = Append(@, "get_forecast"),
                  !.forecast = outcome,
                  !.pc = IF outcome.status = "returned" THEN "evaluate" ELSE "responded",
                  !.response = IF outcome.status = "returned" THEN @
                               ELSE ServerError(outcome.error)]
    /\ EndpointFrame

\* recommendations = recommendation_engine.get_..._recommendations(weather, forecast)
\* and the reply
Evaluate ==
    /\ request.pc = "evaluate"
    /\ LET weather == Value(request.weather)
           fc == Value(request.forecast)
           outcome ==
               IF request.endpoint = "agriculture"
               THEN get_agriculture_recommendations(ag_thresholds, weather, fc, month)
               ELSE get_travel_recommendations(travel_thresholds, weather, fc)
       IN  request' =
               [request EXCEPT
                   !.calls = Append(@, EngineMethod(request.endpoint)),
                   !.recommendations = outcome,
                   !.pc = "responded",
                   !.response = IF outcome.status = "returned"
                                THEN Success(weather, fc, Value(outcome))
                                ELSE ServerError(outcome.error)]
    /\ EndpointFrame

EndpointInit ==
    /\ ag_thresholds = AGRICULTURE_THRESHOLDS
    /\ travel_thresholds = TRAVEL_THRESHOLDS
    /\ call = "none"
    /\ weather_data = EmptyDict
    /\ forecast = None
    /\ month \in TypicalMonths
    /\ pc = "start"
    /\ result = NoResult
    /\ data = <<>>
    /\ day_count = 0
    /\ NoThreads
    /\ request = NoRequest

EndpointNext ==
    \/ Receive
    \/ GetCurrentWeather
    \/ GetForecastOfFiveDays
    \/ Evaluate

EndpointSpec == EndpointInit /\ [][EndpointNext]_vars

----------------------------------------------------------------------------
(* C30 *)

\* the request has been read by its handler
Received == request.pc # "waiting"

\* the query of the request gives no float for lat or for lon
LacksCoordinates ==
    \/ ~ArgsGet(request.query, "lat").given
    \/ ~ArgsGet(request.query, "lon").given

\* the calls of a request that runs to its end, in their order
CallsInOrder ==
    <<"get_current_weather", "get_forecast", EngineMethod(request.endpoint)>>

\* how many of its calls the request has made
CallsMade == Len(request.calls)

\* the call of the request that raised, 0 when none did
RaisedAt ==
    IF request.weather.status = "raised" /\ request.weather.error # "none" THEN 1
    ELSE IF request.forecast.status = "raised" /\ request.forecast.error # "none" THEN 2
    ELSE IF request.recommendations.status = "raised"
            /\ request.recommendations.error # "none" THEN 3
    ELSE 0

\* C30: a request to a recommendation endpoint without lat or lon is
\* answered with 400 and calls neither the weather service nor the engine;
\* any other request fetches the current weather, then the forecast, and
\* calls the engine last, only after both fetches have returned; when a
\* fetch or the evaluation raises, the request makes no further call and
\* is answered with 500, success false and no recommendations.
C30_EndpointFlow ==
    /\ (Received /\ LacksCoordinates)
           => /\ request.pc = "responded"
              /\ request.response = BadRequest
              /\ request.calls = <<>>
    /\ (Received /\ ~LacksCoordinates)
           => /\ request.calls = SubSeq(CallsInOrder, 1, CallsMade)
              /\ request.response.status # 400
              /\ request.pc = "get_current_weather" <=> CallsMade = 0
    /\ CallsMade = 3
           => request.weather.status = "returned" /\ request.forecast.status = "returned"
    /\ RaisedAt # 0
           => /\ CallsMade = RaisedAt
              /\ request.pc = "responded"
              /\ request.response.status = 500
              /\ request.response.success = FALSE
              /\ "recommendations" \notin DOMAIN request.response
    /\ request.response.status = 500 => RaisedAt # 0
    /\ request.response.status = 200
           => /\ CallsMade = 3 /\ RaisedAt = 0
              /\ request.response.success = TRUE
              /\ request.response.recommendations = Value(request.recommendations)

\* the forecast could not be fetched after the weather had been: the reply
\* is 500 and the engine has not been called
C30_Witness ==
    /\ request.pc = "responded"
    /\ request.calls = <<"get_current_weather", "get_forecast">>
    /\ request.weather.status = "returned"
    /\ request.forecast = Raised("Failed to fetch forecast")
    /\ request.response = ServerError("Failed to fetch forecast")

\* lat is in the query and lon is not a float: 400 and no call
C30_BadRequestWitness ==
    /\ request.pc = "responded"
    /\ request.lat = Arg(515) /\ "lon" \in DOMAIN request.query /\ ~request.lon.given
    /\ request.response.status = 400 /\ request.calls = <<>>

\* lat = 0 is a latitude: the request runs to its end
C30_SuccessWitness ==
    /\ request.lat = Arg(0) /\ request.lon = Arg(-1)
    /\ request.endpoint = "travel"
    /\ request.response.status = 200
    /\ request.calls = <<"get_current_weather", "get_forecast", "get_travel_recommendations">>

\* the evaluation raised: 500 after the three calls
C30_EvaluationRaisedWitness ==
    /\ request.endpoint = "agriculture"
    /\ RaisedAt = 3
    /\ request.response.status = 500

====
